---------------------------- MODULE Spec2Model ----------------------------
(***************************************************************************)
(* support_tracker: the raw-text parser (services/parser.py), the upsert   *)
(* reconciler of POST /upload-raw-data (main.py), the bulk upsert and the  *)
(* delete endpoints (routers/performances.py, routers/agents.py), the     *)
(* team and agent administration (routers/teams.py, routers/agents.py)    *)
(* and the metrics report (routers/metrics.py).                            *)
(*                                                                         *)
(* Text is modelled at character level: a str is a sequence of one-        *)
(* character strings, a raw text is the sequence of its '\n'-separated     *)
(* lines.  A date is <<year, month, day>>.  A float is counted in tenths   *)
(* (8.0 is 80, 9.5 is 95).                                                 *)
(***************************************************************************)
EXTENDS Integers, Sequences, FiniteSets, TLC

VARIABLES
    agents,     \* table agents: id -> [team_id, excel_alias]
    teams,      \* table teams: id -> name
    perfs,      \* table daily_performances (committed): id -> row
    nextId,     \* next primary key of daily_performances
    req,        \* the requests in flight: slot -> handler state
    served,     \* how many requests have been started
    hist,       \* the last upload that committed and the table it left
    ptext,      \* parser harness: the raw text given to parse_raw_text
    pres        \* parser harness: what parse_raw_text returned

vars == <<agents, teams, perfs, nextId, req, served, hist, ptext, pres>>

----------------------------------------------------------------------------
(* Characters and str methods                                              *)

Digits == <<"0", "1", "2", "3", "4", "5", "6", "7", "8", "9">>

LowerCase == <<"a", "b", "c", "d", "e", "f", "g", "h", "i", "j", "k", "l", "m",
               "n", "o", "p", "q", "r", "s", "t", "u", "v", "w", "x", "y", "z">>

UpperCase == <<"A", "B", "C", "D", "E", "F", "G", "H", "I", "J", "K", "L", "M",
               "N", "O", "P", "Q", "R", "S", "T", "U", "V", "W", "X", "Y", "Z">>

\* The characters of the model in code point order.
CodePoints == <<"\t", " ", ",", "-", ".">> \o Digits \o UpperCase \o LowerCase

Range(s) == {s[i] : i \in 1..Len(s)}

IndexIn(c, s) == IF \E i \in 1..Len(s) : s[i] = c
                 THEN CHOOSE i \in 1..Len(s) : s[i] = c
                 ELSE 0

IsDigit(c) == c \in Range(Digits)

IsSpace(c) == c \in {" ", "\t"}

IsLower(c) == c \in Range(LowerCase)

DigitVal(c) == IndexIn(c, Digits) - 1

Ord(c) == IndexIn(c, CodePoints)

upper(s) == [i \in 1..Len(s) |->
               IF IsLower(s[i]) THEN UpperCase[IndexIn(s[i], LowerCase)] ELSE s[i]]

lower(s) == [i \in 1..Len(s) |->
               IF s[i] \in Range(UpperCase)
               THEN LowerCase[IndexIn(s[i], UpperCase)] ELSE s[i]]

\* str.strip(): without the leading and the trailing white space.
strip(s) ==
    LET keep == {i \in 1..Len(s) : ~IsSpace(s[i])}
    IN  IF keep = {} THEN <<>>
        ELSE LET lo == CHOOSE i \in keep : \A j \in keep : i <= j
                 hi == CHOOSE i \in keep : \A j \in keep : j <= i
             IN  SubSeq(s, lo, hi)

\* str.split(): the maximal runs of characters that are not white space.
RECURSIVE SplitFrom(_, _, _)
SplitFrom(s, i, cur) ==
    IF i > Len(s) THEN (IF cur = <<>> THEN <<>> ELSE <<cur>>)
    ELSE IF IsSpace(s[i])
         THEN (IF cur = <<>> THEN <<>> ELSE <<cur>>) \o SplitFrom(s, i + 1, <<>>)
         ELSE SplitFrom(s, i + 1, Append(cur, s[i]))

split(s) == SplitFrom(s, 1, <<>>)

\* int(s) of a run of digits.
RECURSIVE DigitsValue(_)
DigitsValue(s) ==
    IF s = <<>> THEN 0
    ELSE 10 * DigitsValue(SubSeq(s, 1, Len(s) - 1)) + DigitVal(s[Len(s)])

\* Whether int(s) accepts s: an optional minus sign and at least one digit.
IsIntLiteral(s) ==
    LET body == IF s # <<>> /\ s[1] = "-" THEN Tail(s) ELSE s
    IN  body # <<>> /\ \A i \in 1..Len(body) : IsDigit(body[i])

IntOf(s) == IF s[1] = "-" THEN 0 - DigitsValue(Tail(s)) ELSE DigitsValue(s)

\* s < t for two str (code point order, a proper prefix first).
RECURSIVE StrLess(_, _)
StrLess(s, t) ==
    IF t = <<>> THEN FALSE
    ELSE IF s = <<>> THEN TRUE
    ELSE IF s[1] # t[1] THEN Ord(s[1]) < Ord(t[1])
    ELSE StrLess(Tail(s), Tail(t))

\* sorted(S) of a set of str.
RECURSIVE sorted(_)
sorted(S) ==
    IF S = {} THEN <<>>
    ELSE LET m == CHOOSE x \in S : \A y \in S \ {x} : StrLess(x, y)
         IN  <<m>> \o sorted(S \ {m})

----------------------------------------------------------------------------
(* services/parser.py                                                      *)

PointsActualDefault == 0

PointsGoalDefault == 80

\* A cleaning that removes nothing.
Uncleaned(s) == s

\* re.sub(r'[^\d-]', '', s)
Cleaned(s) == SelectSeq(s, LAMBDA c : IsDigit(c) \/ c = "-")

\* A conversion without the cleaning fallback: what is not an int literal is 0.
SafeIntPlain(value) ==
    LET value_str == strip(value)
    IN  IF value_str # <<>> /\ IsIntLiteral(value_str) THEN IntOf(value_str) ELSE 0

_safe_int(value) ==
    LET value_str == strip(value)
    IN  IF value_str = <<>> THEN 0
        ELSE IF IsIntLiteral(value_str) THEN IntOf(value_str)
        ELSE LET cleaned == Cleaned(value_str)
             IN  IF cleaned # <<>> /\ IsIntLiteral(cleaned) THEN IntOf(cleaned)
                 ELSE 0

month_map(abbr) ==
    CASE abbr = <<"e", "n", "e">> -> 1
      [] abbr = <<"f", "e", "b">> -> 2
      [] abbr = <<"m", "a", "r">> -> 3
      [] abbr = <<"a", "b", "r">> -> 4
      [] abbr = <<"m", "a", "y">> -> 5
      [] abbr = <<"j", "u", "n">> -> 6
      [] abbr = <<"j", "u", "l">> -> 7
      [] abbr = <<"a", "g", "o">> -> 8
      [] abbr = <<"s", "e", "p">> -> 9
      [] abbr = <<"o", "c", "t">> -> 10
      [] abbr = <<"n", "o", "v">> -> 11
      [] abbr = <<"d", "i", "c">> -> 12
      [] OTHER -> 0

IsLeap(y) == (y % 4 = 0 /\ y % 100 # 0) \/ y % 400 = 0

DaysInMonth(y, m) ==
    IF m = 2 THEN (IF IsLeap(y) THEN 29 ELSE 28)
    ELSE IF m \in {4, 6, 9, 11} THEN 30 ELSE 31

\* A calendar that has every day in every month.
DateOkAlways(y, m, d) == TRUE

\* Whether date(y, m, d) is constructed (it raises ValueError otherwise).
DateOk(y, m, d) == m \in 1..12 /\ d >= 1 /\ d <= DaysInMonth(y, m)

\* The end of the longest run of digits that starts at i (i - 1 when there is
\* none).
RECURSIVE DigitRunEnd(_, _)
DigitRunEnd(s, i) ==
    IF i <= Len(s) /\ IsDigit(s[i]) THEN DigitRunEnd(s, i + 1) ELSE i - 1

\* The same for a run of white space.
RECURSIVE SpaceRunEnd(_, _)
SpaceRunEnd(s, i) ==
    IF i <= Len(s) /\ IsSpace(s[i]) THEN SpaceRunEnd(s, i + 1) ELSE i - 1

\* A match of (\d+)\s+([a-z]{3})\.? that starts at i: its groups and its end,
\* or end = 0 when the pattern does not match there.
DateMatchAt(s, i) ==
    LET de == DigitRunEnd(s, i)
        se == SpaceRunEnd(s, de + 1)
        le == se + 3
    IN  IF de >= i /\ se > de /\ le <= Len(s)
           /\ \A k \in (se + 1)..le : IsLower(s[k])
        THEN [day_str |-> SubSeq(s, i, de),
              month_abbr |-> SubSeq(s, se + 1, le),
              end |-> IF le + 1 <= Len(s) /\ s[le + 1] = "." THEN le + 1 ELSE le]
        ELSE [day_str |-> <<>>, month_abbr |-> <<>>, end |-> 0]

\* re.findall: the matches from left to right, none overlapping another.
RECURSIVE FindDateMatches(_, _)
FindDateMatches(s, i) ==
    IF i > Len(s) THEN <<>>
    ELSE LET m == DateMatchAt(s, i)
         IN  IF m.end = 0 THEN FindDateMatches(s, i + 1)
             ELSE <<m>> \o FindDateMatches(s, m.end + 1)

\* Whether date a precedes date b in the calendar.
DateBefore(a, b) ==
    \/ a[1] < b[1]
    \/ a[1] = b[1] /\ a[2] < b[2]
    \/ a[1] = b[1] /\ a[2] = b[2] /\ a[3] < b[3]

\* The sequence of dates with date d put before the first date it precedes.
RECURSIVE InsertDate(_, _)
InsertDate(d, ds) ==
    IF ds = <<>> THEN <<d>>
    ELSE IF DateBefore(d, ds[1]) THEN <<d>> \o ds
    ELSE <<ds[1]>> \o InsertDate(d, Tail(ds))

\* An extraction that returns the dates in calendar order.
RECURSIVE DatesOfMatchesSorted(_, _)
DatesOfMatchesSorted(matches, base_year) ==
    IF matches = <<>> THEN <<>>
    ELSE LET day == DigitsValue(matches[1].day_str)
             month == month_map(matches[1].month_abbr)
             rest == DatesOfMatchesSorted(Tail(matches), base_year)
         IN  IF month # 0 /\ DateOk(base_year, month, day)
             THEN InsertDate(<<base_year, month, day>>, rest)
             ELSE rest

RECURSIVE DatesOfMatches(_, _)
DatesOfMatches(matches, base_year) ==
    IF matches = <<>> THEN <<>>
    ELSE LET day == DigitsValue(matches[1].day_str)
             month == month_map(matches[1].month_abbr)
             rest == DatesOfMatches(Tail(matches), base_year)
         IN  IF month # 0 /\ DateOk(base_year, month, day)
             THEN <<(<<base_year, month, day>>)>> \o rest
             ELSE rest

\* An extraction that falls back on the first of January when it finds no date.
ExtractDatesOrFirst(first_line, base_year) ==
    LET found == DatesOfMatches(FindDateMatches(lower(first_line), 1), base_year)
    IN  IF found = <<>> THEN <<(<<base_year, 1, 1>>)>> ELSE found

_extract_dates(first_line, base_year) ==
    DatesOfMatches(FindDateMatches(lower(first_line), 1), base_year)

\* The agent names the row loop treats as column headers.
HeaderNames == {<<"T", ".">>, <<"P">>, <<"M", ".">>, <<"A">>, <<"D", ".", "M">>,
                <<"W", "I", "E", "D", "E", "R">>, <<"T", ".", " ", "P">>,
                <<"M", ".", " ", "A">>}

\* The position of the first digit of the line, 0 when it has none.
FirstDigit(line) ==
    IF \E i \in 1..Len(line) : IsDigit(line[i])
    THEN CHOOSE i \in 1..Len(line) :
             IsDigit(line[i]) /\ \A j \in 1..(i - 1) : ~IsDigit(line[j])
    ELSE 0

\* The loop condition of the day walk.
\* A decoder that stamps every record of a row with the first header date.
DateOfDayFirst(dates, day_index) == dates[1]

\* date = dates[day_index]
DateOfDay(dates, day_index) == dates[day_index + 1]

DayLoopContinues(col_index, day_index, n_values, n_dates) ==
    col_index + 2 < n_values /\ day_index < n_dates

\* A record class that takes whatever it is given.
DailyMetricCreateAny(tickets_processed, ticket_goal) == TRUE

\* DailyMetricCreate(...): whether the record class takes the two counts.  A
\* parsed record holds non-negative integers; the class refuses others with a
\* ValueError.
DailyMetricCreate(tickets_processed, ticket_goal) ==
    tickets_processed >= 0 /\ ticket_goal >= 0

\* The while loop over the days of one row; col_index and day_index count
\* from 0 as in the code.  A day whose record is refused is skipped.
RECURSIVE DecodeDays(_, _, _, _, _)
DecodeDays(agent_name, data_values, dates, col_index, day_index) ==
    IF ~DayLoopContinues(col_index, day_index, Len(data_values), Len(dates))
    THEN <<>>
    ELSE IF ~DailyMetricCreate(_safe_int(data_values[col_index + 1]),
                               _safe_int(data_values[col_index + 2]))
    THEN DecodeDays(agent_name, data_values, dates, col_index + 3, day_index + 1)
    ELSE <<[excel_alias |-> agent_name,
            date |-> DateOfDay(dates, day_index),
            tickets_actual |-> _safe_int(data_values[col_index + 1]),
            tickets_goal |-> _safe_int(data_values[col_index + 2]),
            points_actual |-> PointsActualDefault,
            points_goal |-> PointsGoalDefault]>>
         \o DecodeDays(agent_name, data_values, dates, col_index + 3, day_index + 1)

\* The body of the loop over data_lines for one line.
ParseRow(raw_line, dates) ==
    LET line == strip(raw_line)
        numeric_start == FirstDigit(line)
        agent_name == upper(strip(SubSeq(line, 1, numeric_start - 1)))
        data_values == split(SubSeq(line, numeric_start, Len(line)))
    IN  IF line = <<>> \/ numeric_start = 0 THEN <<>>
        ELSE IF agent_name = <<>> \/ agent_name \in HeaderNames THEN <<>>
        ELSE DecodeDays(agent_name, data_values, dates, 0, 0)

RECURSIVE ParseRows(_, _)
ParseRows(data_lines, dates) ==
    IF data_lines = <<>> THEN <<>>
    ELSE ParseRow(data_lines[1], dates) \o ParseRows(Tail(data_lines), dates)

\* The lines stripped, the blank ones kept.
StrippedLines(raw_text) == [i \in 1..Len(raw_text) |-> strip(raw_text[i])]

\* lines = [line.strip() for line in raw_text.strip().split('\n') if line.strip()]
NonBlankLines(raw_text) ==
    LET stripped == [i \in 1..Len(raw_text) |-> strip(raw_text[i])]
    IN  SelectSeq(stripped, LAMBDA l : l # <<>>)

\* A parser that takes the second line for a data row.
parse_raw_text_from_second(raw_text, base_year) ==
    LET lines == NonBlankLines(raw_text)
    IN  IF Len(lines) < 3 THEN [ok |-> FALSE, metrics |-> <<>>]
        ELSE [ok |-> TRUE,
              metrics |-> ParseRows(SubSeq(lines, 2, Len(lines)),
                                    _extract_dates(lines[1], base_year))]

\* [ok |-> FALSE] stands for the ValueError "Invalid format".
parse_raw_text(raw_text, base_year) ==
    LET lines == NonBlankLines(raw_text)
    IN  IF Len(lines) < 3 THEN [ok |-> FALSE, metrics |-> <<>>]
        ELSE [ok |-> TRUE,
              metrics |-> ParseRows(SubSeq(lines, 3, Len(lines)),
                                    _extract_dates(lines[1], base_year))]

----------------------------------------------------------------------------
(* The pasted blocks given to the parser.  A block is described by its     *)
(* header and its rows, and rendered to the text the client sends.         *)

MaxDates == 3

MaxTokens == 7

BaseYear == 2024

Space == <<" ">>

RECURSIVE Join(_)
Join(words) ==
    IF words = <<>> THEN <<>>
    ELSE IF Len(words) = 1 THEN words[1]
    ELSE words[1] \o Space \o Join(Tail(words))

\* The k-th date token of a header: day k of January.
DateToken(k) == <<Digits[k + 1], " ", "e", "n", "e", ".">>

\* A token whose day no month has.
BadDateToken == <<"3", "1", " ", "f", "e", "b", ".">>

\* The header line: "WIEDER", the bad token when asked for, then n date tokens.
HeaderLine(n, bad) ==
    Join(<<(<<"W", "I", "E", "D", "E", "R">>)>>
         \o (IF bad THEN <<BadDateToken>> ELSE <<>>)
         \o [k \in 1..n |-> DateToken(k)])

\* The date tokens of the headers of the extraction harness: two good tokens
\* out of calendar order, a day no month has, an unknown month, a token
\* without its period and a token in upper case.
HeaderTokens ==
    << <<"2", " ", "e", "n", "e", ".">>,
       <<"1", " ", "e", "n", "e", ".">>,
       BadDateToken,
       <<"5", " ", "x", "y", "z", ".">>,
       <<"1", "5", " ", "d", "i", "c">>,
       <<"3", " ", "M", "A", "R", ".">> >>

MaxHeaderTokens == 3

\* The headers of the extraction harness, as sequences of token numbers.
HeaderKinds ==
    UNION {[1..n -> 1..Len(HeaderTokens)] : n \in 0..MaxHeaderTokens}

\* The header line of a sequence of token numbers.
HeaderOf(kinds) ==
    Join(<<(<<"W", "I", "E", "D", "E", "R">>)>>
         \o [k \in 1..Len(kinds) |-> HeaderTokens[kinds[k]]])

LabelLine == <<"T", ".", " ", "P", " ", "M", ".", " ", "A", " ", "D", ".", "M">>

\* The j-th numeric cell of a row.  Style 1 writes the number j; style 2
\* writes actual cells with a thousands separator (1.j), goal cells as j0 and
\* delta cells as a dash (j counts modulo 10); style 3 is style 1 with a
\* minus sign before the goal of the first group.
Cell(style, j) ==
    IF style = 3 /\ j = 2 THEN <<"-", Digits[(j % 10) + 1]>>
    ELSE IF style \in {1, 3} THEN <<Digits[(j % 10) + 1]>>
    ELSE IF j % 3 = 1 THEN <<"1", ".", Digits[(j % 10) + 1]>>
    ELSE IF j % 3 = 2 THEN <<Digits[(j % 10) + 1], "0">>
    ELSE <<"-">>

\* The number a cell stands for.
CellValue(style, j) ==
    IF style = 3 /\ j = 2 THEN 0 - (j % 10)
    ELSE IF style \in {1, 3} THEN j % 10
    ELSE IF j % 3 = 1 THEN 10 + (j % 10)
    ELSE IF j % 3 = 2 THEN 10 * (j % 10)
    ELSE 0

\* A row: the name as typed, then its first n cells.
RowLine(row) == Join(<<row.name>> \o [j \in 1..row.n |-> Cell(row.style, j)])

Render(block) ==
    <<HeaderLine(block.dates, block.bad), LabelLine>>
    \o [i \in 1..Len(block.rows) |-> RowLine(block.rows[i])]

NameAL == <<"A", "L">>

NameBO == <<"B", "O">>

NameCY == <<"C", "Y">>

NameZZ == <<"Z", "Z">>

NameLowerAL == <<"a", "l">>

Rows(names, styles, counts) ==
    {[name |-> nm, style |-> st, n |-> c] : nm \in names, st \in styles, c \in counts}

Blocks(dates, bads, first, second) ==
    {[dates |-> d, bad |-> b, rows |-> <<r>>] : d \in dates, b \in bads, r \in first}
    \cup {[dates |-> d, bad |-> b, rows |-> <<r1, r2>>] :
             d \in dates, b \in bads, r1 \in first, r2 \in second}

\* The blocks of the parser harness.
ParseBlocks ==
    Blocks(0..MaxDates, BOOLEAN,
           Rows({NameAL, NameLowerAL}, {1, 2}, 0..MaxTokens),
           Rows({NameBO, NameAL}, {1}, {3, MaxTokens}))

Row(name, style, n) == [name |-> name, style |-> style, n |-> n]

Block(dates, rows) == [dates |-> dates, bad |-> FALSE, rows |-> rows]

\* Two dates, agent AL with both groups.
BlockAL == Block(2, <<Row(NameAL, 1, 6)>>)

\* Two dates, AL in the other style and BO with one group.
BlockALBO == Block(2, <<Row(NameAL, 2, 6), Row(NameBO, 1, 3)>>)

\* One date, BO then AL.
BlockBOAL == Block(1, <<Row(NameBO, 1, 3), Row(NameAL, 1, 3)>>)

\* One date, an unknown name between two known ones.
BlockZZ == Block(1, <<Row(NameAL, 1, 3), Row(NameZZ, 1, 3), Row(NameBO, 1, 3)>>)

\* A header without dates.
BlockNoDates == Block(0, <<Row(NameAL, 1, 3)>>)

\* A header and a label line without any row.
BlockEmpty == Block(2, <<>>)

\* A header, a label line and a line of white space.
BlockBlankRow == Block(2, <<Row(<<" ">>, 1, 0)>>)

\* A line of white space before the row of AL.
BlockBlankThenAL == Block(1, <<Row(<<" ">>, 1, 0), Row(NameAL, 1, 3)>>)

\* A header whose only date token names a day no month has.
BlockBadOnly == [dates |-> 0, bad |-> TRUE, rows |-> <<Row(NameAL, 1, 3)>>]

\* A header without dates over the row of an alias nobody bears.
BlockNoDatesZZ == Block(0, <<Row(NameZZ, 1, 3)>>)

NameTOTAL == <<"T", "O", "T", "A", "L">>

\* The row of AL and a totals row.
BlockTotal == Block(1, <<Row(NameAL, 1, 3), Row(NameTOTAL, 1, 3)>>)

\* Two dates; the goal of the first group of AL bears a minus sign.
BlockSigned == Block(2, <<Row(NameAL, 3, 6)>>)

\* One date, AL with its group.
BlockAL1 == Block(1, <<Row(NameAL, 1, 3)>>)

\* The blocks in which every row carries a complete group for every date.
CompleteBlocks ==
    {Block(d, <<Row(NameAL, st, 3 * d)>>) : d \in 1..MaxDates, st \in {1, 2}}
    \cup {Block(d, <<Row(NameBO, 1, 3 * d), Row(NameLowerAL, 2, 3 * d)>>) :
             d \in 1..MaxDates}

\* The blocks the upload requests of the model carry.
UploadBlocks ==
    {BlockAL, BlockALBO, BlockBOAL, BlockZZ, BlockNoDates, BlockEmpty, BlockAL1,
     BlockBlankRow, BlockBlankThenAL, BlockBadOnly, BlockNoDatesZZ, BlockTotal,
     BlockSigned}
    \cup CompleteBlocks

\* parse_raw_text(raw_data, base_year) of each of them, computed once: every
\* request of the model gives BaseYear as its base_year.
ParsedText == [block \in UploadBlocks |-> parse_raw_text(Render(block), BaseYear)]

----------------------------------------------------------------------------
(* The tables (models.py) and the session of one request                   *)

\* The server processes that share the database.  A handler is an async def
\* without an await, so one process serves one request at a time; the
\* database calls of requests served by different processes interleave.
\* Each request has a session of its own (Depends(get_db)), without autoflush.
Slots == {1, 2}

\* How many requests the clients send.
MaxRequests == 3

None == <<>>

Some(x) == <<x>>

NoRows == [i \in {} |-> 0]

KeyOf(row) == <<row.agent_id, row.date>>

\* The columns an upsert assigns.
ValueOf(row) == [tickets_actual |-> row.tickets_actual,
                 tickets_goal |-> row.tickets_goal,
                 points_actual |-> row.points_actual,
                 points_goal |-> row.points_goal]

\* A lookup that forgets the date: the first row of the agent.
FirstPerfByAgent(table, agent_id, date) ==
    LET found == {i \in DOMAIN table : table[i].agent_id = agent_id}
    IN  IF found = {} THEN 0 ELSE CHOOSE i \in found : \A j \in found : i <= j

\* filter(agent_id == a, date == d).first(): the id of the row, 0 for None.
FirstPerf(table, agent_id, date) ==
    LET found == {i \in DOMAIN table : KeyOf(table[i]) = <<agent_id, date>>}
    IN  IF found = {} THEN 0 ELSE CHOOSE i \in found : \A j \in found : i <= j

\* A table without the unique constraint.
UniqueAgentDateOff(table) == TRUE

\* UniqueConstraint('agent_id', 'date', name='uq_agent_date')
UniqueAgentDate(table) ==
    \A i, j \in DOMAIN table : KeyOf(table[i]) = KeyOf(table[j]) => i = j

\* ForeignKey("agents.id") of daily_performances.agent_id
AgentFkOk(table, agent_table) ==
    \A i \in DOMAIN table : table[i].agent_id \in DOMAIN agent_table

\* An UPDATE that sets the ticket columns only.
UpdatedRowTicketsOnly(stored, loaded, cur) ==
    [f \in DOMAIN stored |->
        IF f \in {"tickets_actual", "tickets_goal"} /\ f \in DOMAIN cur
        THEN cur[f] ELSE stored[f]]

\* The UPDATE the unit of work issues for a loaded row: it sets the columns
\* whose value differs from the value loaded by the lookup.
UpdatedRow(stored, loaded, cur) ==
    [f \in DOMAIN stored |->
        IF f \in DOMAIN cur /\ cur[f] # loaded[f] THEN cur[f] ELSE stored[f]]

\* A table that is replaced by the rows added, when any is added.
InsertAllReplacing(table, new, first_id) ==
    IF new = <<>> THEN table
    ELSE [i \in {first_id + k - 1 : k \in 1..Len(new)} |-> new[i - first_id + 1]]

\* The table after the pending INSERTs, which take the next primary keys.
InsertAll(table, new, first_id) ==
    [i \in DOMAIN table \cup {first_id + k - 1 : k \in 1..Len(new)} |->
        IF i \in DOMAIN table THEN table[i] ELSE new[i - first_id + 1]]

\* Whether the flush issues an UPDATE for a loaded row: some column changed.
Changed(entry) == \E f \in DOMAIN entry.cur : entry.cur[f] # entry.loaded[f]

\* db.commit(): the flush of the session and the commit of its transaction.
\* It raises when an UPDATE finds its row gone or a constraint is violated,
\* and then nothing of the session is committed.
Flush(table, agent_table, dirty, new, first_id) ==
    LET stale == \E i \in DOMAIN dirty : Changed(dirty[i]) /\ i \notin DOMAIN table
        updated == [i \in DOMAIN table |->
                       IF i \in DOMAIN dirty
                       THEN UpdatedRow(table[i], dirty[i].loaded, dirty[i].cur)
                       ELSE table[i]]
        after == InsertAll(updated, new, first_id)
    IN  IF stale \/ ~UniqueAgentDate(after) \/ ~AgentFkOk(after, agent_table)
        THEN [ok |-> FALSE, table |-> table, next |-> first_id]
        ELSE [ok |-> TRUE, table |-> after, next |-> first_id + Len(new)]

\* The teams the database is seeded with.
SeedTeams == (1 :> "Alpha") @@ (2 :> "Beta")

NoBody == [kind |-> "none"]

Idle == [pc |-> "idle", op |-> "none", body |-> NoBody, batch |-> <<>>, idx |-> 0,
         dirty |-> NoRows, new |-> <<>>, result |-> <<>>, wrote |-> FALSE,
         status |-> 0, error |-> "", missing |-> <<>>]

\* The response of a request that ends before it writes anything.
Rejected(op, body, status, error, missing) ==
    [Idle EXCEPT !.pc = "done", !.op = op, !.body = body, !.status = status,
                 !.error = error, !.missing = missing]

----------------------------------------------------------------------------
(* main.py: POST /upload-raw-data                                          *)

\* A detail that names the first unresolved alias only.
MissingDetailFirst(missing_aliases) == <<sorted(missing_aliases)[1]>>

\* The unresolved aliases as the error detail lists them.
MissingDetail(missing_aliases) == sorted(missing_aliases)

\* The agents of any team that bear the alias.
AgentsByAliasAnyTeam(agent_table, team_id, alias) ==
    {a \in DOMAIN agent_table : agent_table[a].excel_alias = alias}

\* The agents of the team that bear the alias.
AgentsByAlias(agent_table, team_id, alias) ==
    {a \in DOMAIN agent_table :
        agent_table[a].team_id = team_id /\ agent_table[a].excel_alias = alias}

\* A loop that stores every parsed record, whatever the dictionary holds.
StoresOverAlways(key, keys_so_far) == TRUE

\* Whether the loop over parsed_performances stores perf under a key the
\* dictionary already holds.
StoresOver(key, keys_so_far) == key \notin keys_so_far

\* A grouping that takes an override of 0 for no override.
RECURSIVE GroupByKeyTruthy(_, _, _, _)
GroupByKeyTruthy(parsed, by_alias, body, acc) ==
    IF parsed = <<>> THEN acc
    ELSE LET perf == parsed[1]
             data == [agent_id |-> by_alias[perf.excel_alias],
                      date |-> IF body.date # None THEN body.date[1] ELSE perf.date,
                      tickets_actual |-> perf.tickets_actual,
                      tickets_goal |-> IF body.tickets_goal \notin {None, Some(0)}
                                       THEN body.tickets_goal[1] ELSE perf.tickets_goal,
                      points_actual |-> perf.points_actual,
                      points_goal |-> IF body.points_goal \notin {None, Some(0)}
                                      THEN body.points_goal[1] ELSE perf.points_goal]
             keys == {KeyOf(acc[i]) : i \in 1..Len(acc)}
         IN  GroupByKeyTruthy(Tail(parsed), by_alias, body,
                              IF KeyOf(data) \notin keys THEN Append(acc, data)
                              ELSE acc)

\* A grouping that keys every record by its parsed date.
RECURSIVE GroupByKeyParsedDate(_, _, _, _)
GroupByKeyParsedDate(parsed, by_alias, body, acc) ==
    IF parsed = <<>> THEN acc
    ELSE LET perf == parsed[1]
             data == [agent_id |-> by_alias[perf.excel_alias],
                      date |-> perf.date,
                      tickets_actual |-> perf.tickets_actual,
                      tickets_goal |-> IF body.tickets_goal # None
                                       THEN body.tickets_goal[1] ELSE perf.tickets_goal,
                      points_actual |-> perf.points_actual,
                      points_goal |-> IF body.points_goal # None
                                      THEN body.points_goal[1] ELSE perf.points_goal]
             keys == {KeyOf(acc[i]) : i \in 1..Len(acc)}
         IN  GroupByKeyParsedDate(Tail(parsed), by_alias, body,
                                  IF KeyOf(data) \notin keys THEN Append(acc, data)
                                  ELSE acc)

\* performances_by_key, in insertion order.
RECURSIVE GroupByKey(_, _, _, _)
GroupByKey(parsed, by_alias, body, acc) ==
    IF parsed = <<>> THEN acc
    ELSE LET perf == parsed[1]
             perf_date == IF body.date # None THEN body.date[1] ELSE perf.date
             perf_tickets_goal == IF body.tickets_goal # None
                                  THEN body.tickets_goal[1] ELSE perf.tickets_goal
             perf_points_goal == IF body.points_goal # None
                                 THEN body.points_goal[1] ELSE perf.points_goal
             data == [agent_id |-> by_alias[perf.excel_alias],
                      date |-> perf_date,
                      tickets_actual |-> perf.tickets_actual,
                      tickets_goal |-> perf_tickets_goal,
                      points_actual |-> perf.points_actual,
                      points_goal |-> perf_points_goal]
             keys == {KeyOf(acc[i]) : i \in 1..Len(acc)}
         IN  GroupByKey(Tail(parsed), by_alias, body,
                        IF StoresOver(KeyOf(data), keys) THEN Append(acc, data)
                        ELSE acc)

\* The handler up to the upsert loop: the team, the parse, the resolution of
\* the aliases and the grouping.
UploadBegin(r, body) ==
    /\ req[r].pc = "idle"
    /\ served < MaxRequests
    /\ served' = served + 1
    /\ LET parsed == ParsedText[body.raw_data]
           unique_excel_aliases ==
               {parsed.metrics[i].excel_alias : i \in 1..Len(parsed.metrics)}
           missing_aliases ==
               {al \in unique_excel_aliases :
                   AgentsByAlias(agents, body.team_id, al) = {}}
       IN  IF body.team_id \notin DOMAIN teams
           THEN req' = [req EXCEPT ![r] =
                           Rejected("upload", body, 404, "team_not_found", <<>>)]
           ELSE IF ~parsed.ok
           THEN req' = [req EXCEPT ![r] =
                           Rejected("upload", body, 400, "parse_error", <<>>)]
           ELSE IF parsed.metrics = <<>>
           THEN req' = [req EXCEPT ![r] =
                           Rejected("upload", body, 400, "no_data", <<>>)]
           ELSE IF missing_aliases # {}
           THEN req' = [req EXCEPT ![r] =
                           Rejected("upload", body, 400, "missing_agents",
                                    MissingDetail(missing_aliases))]
           ELSE \E by_alias \in [unique_excel_aliases -> DOMAIN agents] :
                   /\ \A al \in unique_excel_aliases :
                         by_alias[al] \in AgentsByAlias(agents, body.team_id, al)
                   /\ req' = [req EXCEPT ![r] =
                                 [Idle EXCEPT !.pc = "lookup", !.op = "upload",
                                              !.body = body, !.idx = 1,
                                              !.batch = GroupByKey(parsed.metrics,
                                                            by_alias, body, <<>>)]]
    /\ UNCHANGED <<agents, teams, perfs, nextId, hist, ptext, pres>>

\* One round of the upsert loop: the lookup of the pair and the update of the
\* row found, or the add of a new row.  Both stay in the session.
Upsert(q, table) ==
    LET data == q.batch[q.idx]
        existing == FirstPerf(table, data.agent_id, data.date)
        more == q.idx < Len(q.batch)
        loaded == IF existing \in DOMAIN q.dirty THEN q.dirty[existing].loaded
                  ELSE table[existing]
    IN  IF existing # 0
        THEN [q EXCEPT !.idx = q.idx + 1,
                       !.pc = IF more THEN "lookup" ELSE "commit",
                       !.dirty = [i \in DOMAIN q.dirty \cup {existing} |->
                                     IF i = existing
                                     THEN [loaded |-> loaded, cur |-> ValueOf(data)]
                                     ELSE q.dirty[i]],
                       !.result = Append(q.result, [row |-> existing, new |-> 0])]
        ELSE [q EXCEPT !.idx = q.idx + 1,
                       !.pc = IF more THEN "lookup" ELSE "commit",
                       !.new = Append(q.new, data),
                       !.result = Append(q.result,
                                         [row |-> 0, new |-> Len(q.new) + 1])]

UploadLookup(r) ==
    /\ req[r].pc = "lookup"
    /\ req[r].op = "upload"
    /\ req' = [req EXCEPT ![r] = Upsert(req[r], perfs)]
    /\ UNCHANGED <<agents, teams, perfs, nextId, served, hist, ptext, pres>>

\* db.commit(); an exception rolls the session back and ends the request.
\* The rows added take their primary keys.
Committed(r) ==
    LET q == req[r]
        f == Flush(perfs, agents, q.dirty, q.new, nextId)
    IN  /\ perfs' = f.table
        /\ nextId' = f.next
        /\ req' = [req EXCEPT ![r] =
                      IF f.ok
                      THEN [q EXCEPT !.pc = "refresh", !.wrote = TRUE,
                                     !.result =
                                        [i \in 1..Len(q.result) |->
                                            IF q.result[i].row # 0 THEN q.result[i].row
                                            ELSE nextId + q.result[i].new - 1]]
                      ELSE [q EXCEPT !.pc = "done", !.status = 500,
                                     !.error = "db_error", !.result = <<>>]]

\* The loop of db.refresh and the return: every row is read again by its
\* primary key; a row that is gone raises, and the handler answers 500.
Refreshed(r, ok_status) ==
    LET q == req[r]
    IN  req' = [req EXCEPT ![r] =
                   IF \A i \in 1..Len(q.result) : q.result[i] \in DOMAIN perfs
                   THEN [q EXCEPT !.pc = "done", !.status = ok_status,
                                  !.result = [i \in 1..Len(q.result) |->
                                                 [id |-> q.result[i]]
                                                 @@ perfs[q.result[i]]]]
                   ELSE [q EXCEPT !.pc = "done", !.status = 500,
                                  !.error = "db_error", !.result = <<>>]]

UploadCommit(r) ==
    /\ req[r].pc = "commit"
    /\ req[r].op = "upload"
    /\ Committed(r)
    /\ UNCHANGED <<agents, teams, served, hist, ptext, pres>>

UploadRefresh(r) ==
    /\ req[r].pc = "refresh"
    /\ req[r].op = "upload"
    /\ Refreshed(r, 200)
    /\ UNCHANGED <<agents, teams, perfs, nextId, served, hist, ptext, pres>>

\* The response is sent and the session of the request is closed.
Finish(r) ==
    /\ req[r].pc = "done"
    /\ req' = [req EXCEPT ![r] = Idle]
    /\ UNCHANGED <<agents, teams, perfs, nextId, served, hist, ptext, pres>>

----------------------------------------------------------------------------
(* routers/performances.py, routers/agents.py                              *)

BulkBegin(r, body) ==
    /\ req[r].pc = "idle"
    /\ served < MaxRequests
    /\ served' = served + 1
    /\ req' = [req EXCEPT ![r] =
                  [Idle EXCEPT !.pc = "lookup", !.op = "bulk", !.body = body,
                               !.batch = body.performances, !.idx = 1]]
    /\ UNCHANGED <<agents, teams, perfs, nextId, hist, ptext, pres>>

\* A round of the loop that does not look the agent up.
BulkStepNoCheck(r) ==
    /\ req[r].pc = "lookup"
    /\ req[r].op = "bulk"
    /\ req' = [req EXCEPT ![r] = Upsert(req[r], perfs)]
    /\ UNCHANGED <<agents, teams, perfs, nextId, served, hist, ptext, pres>>

\* One round of the loop: the agent must exist (404 otherwise, and the
\* session is dropped with what it holds), then the upsert of the entry.
BulkStep(r) ==
    /\ req[r].pc = "lookup"
    /\ req[r].op = "bulk"
    /\ req' = [req EXCEPT ![r] =
                  IF req[r].batch[req[r].idx].agent_id \notin DOMAIN agents
                  THEN Rejected("bulk", req[r].body, 404, "agent_not_found", <<>>)
                  ELSE Upsert(req[r], perfs)]
    /\ UNCHANGED <<agents, teams, perfs, nextId, served, hist, ptext, pres>>

BulkCommit(r) ==
    /\ req[r].pc = "commit"
    /\ req[r].op = "bulk"
    /\ Committed(r)
    /\ UNCHANGED <<agents, teams, served, hist, ptext, pres>>

BulkRefresh(r) ==
    /\ req[r].pc = "refresh"
    /\ req[r].op = "bulk"
    /\ Refreshed(r, 201)
    /\ UNCHANGED <<agents, teams, perfs, nextId, served, hist, ptext, pres>>

delete_performance(performance_id) ==
    /\ performance_id \in DOMAIN perfs
    /\ served < MaxRequests
    /\ served' = served + 1
    /\ perfs' = [i \in DOMAIN perfs \ {performance_id} |-> perfs[i]]
    /\ UNCHANGED <<agents, teams, nextId, req, hist, ptext, pres>>

\* A delete of the agent that leaves its daily_performances.
delete_agent_only(agent_id) ==
    /\ agent_id \in DOMAIN agents
    /\ served < MaxRequests
    /\ served' = served + 1
    /\ agents' = [a \in DOMAIN agents \ {agent_id} |-> agents[a]]
    /\ UNCHANGED <<teams, perfs, nextId, req, hist, ptext, pres>>

\* The agent goes with its daily_performances (cascade="all, delete-orphan").
delete_agent(agent_id) ==
    /\ agent_id \in DOMAIN agents
    /\ served < MaxRequests
    /\ served' = served + 1
    /\ agents' = [a \in DOMAIN agents \ {agent_id} |-> agents[a]]
    /\ perfs' = [i \in {j \in DOMAIN perfs : perfs[j].agent_id # agent_id} |->
                    perfs[i]]
    /\ UNCHANGED <<teams, nextId, req, hist, ptext, pres>>

----------------------------------------------------------------------------
(* routers/teams.py and routers/agents.py: teams and agents                *)

\* The primary key an INSERT takes in a table with these ids.
NewId(ids) == IF ids = {} THEN 1 ELSE (CHOOSE i \in ids : \A j \in ids : j <= i) + 1

\* Column(String, unique=True) of teams.name
UniqueTeamName(table) ==
    \A i, j \in DOMAIN table : table[i] = table[j] => i = j

\* ForeignKey("teams.id") of agents.team_id
TeamFkOk(agent_table, team_table) ==
    \A a \in DOMAIN agent_table : agent_table[a].team_id \in DOMAIN team_table

\* A request that passed its checks and goes on to db.commit().
Pending(op, body) == [Idle EXCEPT !.pc = "commit", !.op = op, !.body = body]

\* The answer to a commit that raised: rollback and 500.
DbError(q) == [q EXCEPT !.pc = "done", !.status = 500, !.error = "db_error"]

\* create_team up to the commit: the lookup of the name.
CreateTeamBegin(r, name) ==
    /\ req[r].pc = "idle"
    /\ served < MaxRequests
    /\ served' = served + 1
    /\ req' = [req EXCEPT ![r] =
                  IF \E t \in DOMAIN teams : teams[t] = name
                  THEN Rejected("create_team", [kind |-> "create_team", name |-> name],
                                400, "already_exists", <<>>)
                  ELSE Pending("create_team", [kind |-> "create_team", name |-> name])]
    /\ UNCHANGED <<agents, teams, perfs, nextId, hist, ptext, pres>>

\* db.add(db_team); db.commit()
CreateTeamCommit(r) ==
    /\ req[r].pc = "commit"
    /\ req[r].op = "create_team"
    /\ LET id == NewId(DOMAIN teams)
           after == teams @@ (id :> req[r].body.name)
       IN  IF UniqueTeamName(after)
           THEN /\ teams' = after
                /\ req' = [req EXCEPT ![r] = [req[r] EXCEPT !.pc = "refresh",
                                                            !.wrote = TRUE,
                                                            !.result = <<id>>]]
           ELSE /\ teams' = teams
                /\ req' = [req EXCEPT ![r] = DbError(req[r])]
    /\ UNCHANGED <<agents, perfs, nextId, served, hist, ptext, pres>>

\* update_team up to the commit: the team, then the lookup of the new name
\* among the other teams.
UpdateTeamBegin(r, team_id, name) ==
    /\ req[r].pc = "idle"
    /\ served < MaxRequests
    /\ served' = served + 1
    /\ LET body == [kind |-> "update_team", team_id |-> team_id, name |-> name,
                    loaded |-> IF team_id \in DOMAIN teams THEN teams[team_id] ELSE ""]
       IN  req' = [req EXCEPT ![r] =
                      IF team_id \notin DOMAIN teams
                      THEN Rejected("update_team", body, 404, "team_not_found", <<>>)
                      ELSE IF \E t \in DOMAIN teams : teams[t] = name /\ t # team_id
                      THEN Rejected("update_team", body, 400, "already_exists", <<>>)
                      ELSE Pending("update_team", body)]
    /\ UNCHANGED <<agents, teams, perfs, nextId, hist, ptext, pres>>

\* setattr(db_team, 'name', ...); db.commit(): an UPDATE when the name differs
\* from the one loaded.
UpdateTeamCommit(r) ==
    /\ req[r].pc = "commit"
    /\ req[r].op = "update_team"
    /\ LET b == req[r].body
           after == [t \in DOMAIN teams |-> IF t = b.team_id THEN b.name ELSE teams[t]]
           ok == [req[r] EXCEPT !.pc = "refresh", !.wrote = TRUE,
                                !.result = <<b.team_id>>]
       IN  IF b.name = b.loaded
           THEN teams' = teams /\ req' = [req EXCEPT ![r] = ok]
           ELSE IF b.team_id \notin DOMAIN teams \/ ~UniqueTeamName(after)
           THEN teams' = teams /\ req' = [req EXCEPT ![r] = DbError(req[r])]
           ELSE teams' = after /\ req' = [req EXCEPT ![r] = ok]
    /\ UNCHANGED <<agents, perfs, nextId, served, hist, ptext, pres>>

\* db.refresh(db_team) and the return.
TeamRefresh(r) ==
    /\ req[r].pc = "refresh"
    /\ req[r].op \in {"create_team", "update_team"}
    /\ req' = [req EXCEPT ![r] =
                  IF req[r].result[1] \in DOMAIN teams
                  THEN [req[r] EXCEPT !.pc = "done",
                           !.status = IF req[r].op = "create_team" THEN 201 ELSE 200]
                  ELSE DbError(req[r])]
    /\ UNCHANGED <<agents, teams, perfs, nextId, served, hist, ptext, pres>>

\* delete_team up to the delete: the team and its agents are loaded.
DeleteTeamBegin(r, team_id) ==
    /\ req[r].pc = "idle"
    /\ served < MaxRequests
    /\ served' = served + 1
    /\ LET body == [kind |-> "delete_team", team_id |-> team_id,
                    agents |-> {a \in DOMAIN agents : agents[a].team_id = team_id}]
       IN  req' = [req EXCEPT ![r] =
                      IF team_id \notin DOMAIN teams
                      THEN Rejected("delete_team", body, 404, "team_not_found", <<>>)
                      ELSE Pending("delete_team", body)]
    /\ UNCHANGED <<agents, teams, perfs, nextId, hist, ptext, pres>>

\* db.delete(db_team); db.commit(): the team goes with the agents loaded and
\* their daily_performances; an agent of the team that was not loaded makes the
\* DELETE of the team fail.
DeleteTeamCommit(r) ==
    /\ req[r].pc = "commit"
    /\ req[r].op = "delete_team"
    /\ LET b == req[r].body
           teams_after == [t \in DOMAIN teams \ {b.team_id} |-> teams[t]]
           agents_after == [a \in DOMAIN agents \ b.agents |-> agents[a]]
           perfs_after == [i \in {j \in DOMAIN perfs : perfs[j].agent_id \notin b.agents}
                             |-> perfs[i]]
       IN  IF TeamFkOk(agents_after, teams_after) /\ AgentFkOk(perfs_after, agents_after)
           THEN /\ teams' = teams_after
                /\ agents' = agents_after
                /\ perfs' = perfs_after
                /\ req' = [req EXCEPT ![r] = [req[r] EXCEPT !.pc = "done",
                                                            !.wrote = TRUE,
                                                            !.status = 204]]
           ELSE /\ UNCHANGED <<teams, agents, perfs>>
                /\ req' = [req EXCEPT ![r] = DbError(req[r])]
    /\ UNCHANGED <<nextId, served, hist, ptext, pres>>

\* create_agent up to the commit: the team must exist.
CreateAgentBegin(r, team_id, excel_alias) ==
    /\ req[r].pc = "idle"
    /\ served < MaxRequests
    /\ served' = served + 1
    /\ LET body == [kind |-> "create_agent", team_id |-> team_id,
                    excel_alias |-> excel_alias]
       IN  req' = [req EXCEPT ![r] =
                      IF team_id \notin DOMAIN teams
                      THEN Rejected("create_agent", body, 404, "team_not_found", <<>>)
                      ELSE Pending("create_agent", body)]
    /\ UNCHANGED <<agents, teams, perfs, nextId, hist, ptext, pres>>

\* db.add(db_agent); db.commit()
CreateAgentCommit(r) ==
    /\ req[r].pc = "commit"
    /\ req[r].op = "create_agent"
    /\ LET id == NewId(DOMAIN agents)
           after == agents @@ (id :> [team_id |-> req[r].body.team_id,
                                      excel_alias |-> req[r].body.excel_alias])
       IN  IF TeamFkOk(after, teams)
           THEN /\ agents' = after
                /\ req' = [req EXCEPT ![r] = [req[r] EXCEPT !.pc = "refresh",
                                                            !.wrote = TRUE,
                                                            !.result = <<id>>]]
           ELSE /\ agents' = agents
                /\ req' = [req EXCEPT ![r] = DbError(req[r])]
    /\ UNCHANGED <<teams, perfs, nextId, served, hist, ptext, pres>>

\* db.refresh(db_agent) and the return.
AgentRefresh(r) ==
    /\ req[r].pc = "refresh"
    /\ req[r].op = "create_agent"
    /\ req' = [req EXCEPT ![r] =
                  IF req[r].result[1] \in DOMAIN agents
                  THEN [req[r] EXCEPT !.pc = "done", !.status = 201]
                  ELSE DbError(req[r])]
    /\ UNCHANGED <<agents, teams, perfs, nextId, served, hist, ptext, pres>>

----------------------------------------------------------------------------
(* routers/metrics.py: GET /api/metrics                                    *)

\* BURNOUT_THRESHOLD_HOURS = 88.0, in tenths.
BURNOUT_THRESHOLD_HOURS == 880

\* The days of the year before the first of the month.
RECURSIVE DaysBeforeMonth(_, _)
DaysBeforeMonth(y, m) ==
    IF m = 1 THEN 0 ELSE DaysBeforeMonth(y, m - 1) + DaysInMonth(y, m - 1)

\* date.toordinal(): the days from 1 January of year 1, which is day 1.
toordinal(d) ==
    LET y == d[1] - 1
    IN  365 * y + (y \div 4) - (y \div 100) + (y \div 400)
        + DaysBeforeMonth(d[1], d[2]) + d[3]

\* order_by(DailyPerformance.date.desc(), Agent.full_name): whether row i
\* comes before row j (the names of the agents sort as their ids do).
MetricBefore(table, i, j) ==
    \/ toordinal(table[i].date) > toordinal(table[j].date)
    \/ /\ table[i].date = table[j].date
       /\ \/ table[i].agent_id < table[j].agent_id
          \/ table[i].agent_id = table[j].agent_id /\ i < j

RECURSIVE OrderedMetrics(_, _)
OrderedMetrics(table, ids) ==
    IF ids = {} THEN <<>>
    ELSE LET first == CHOOSE i \in ids :
                          \A j \in ids \ {i} : MetricBefore(table, i, j)
         IN  <<first>> \o OrderedMetrics(table, ids \ {first})

\* The sum of points_actual over the rows of the result.
RECURSIVE SumPoints(_, _)
SumPoints(table, ids) ==
    IF ids = {} THEN 0
    ELSE LET i == CHOOSE k \in ids : TRUE
         IN  table[i].points_actual + SumPoints(table, ids \ {i})

\* is_burnout = accumulated > BURNOUT_THRESHOLD_HOURS
Burnout(row, accumulated) == accumulated > BURNOUT_THRESHOLD_HOURS

\* The body of the response of get_metrics.
get_metrics(table, agent_table, limit, team_id, sprint_days, today) ==
    LET joined == {i \in DOMAIN table :
                      /\ table[i].agent_id \in DOMAIN agent_table
                      /\ team_id # None
                            => agent_table[table[i].agent_id].team_id = team_id[1]}
        ordered == OrderedMetrics(table, joined)
        results == SubSeq(ordered, 1, IF Len(ordered) < limit THEN Len(ordered)
                                      ELSE limit)
        sprint_start == toordinal(today) - sprint_days
        accumulated(a) ==
            SumPoints(table, {i \in Range(results) :
                                 /\ table[i].agent_id = a
                                 /\ toordinal(table[i].date) >= sprint_start})
    IN  [k \in 1..Len(results) |->
            LET perf == table[results[k]]
            IN  [id |-> results[k],
                 agent_id |-> perf.agent_id,
                 date |-> perf.date,
                 tickets_actual |-> perf.tickets_actual,
                 tickets_goal |-> perf.tickets_goal,
                 points_actual |-> perf.points_actual,
                 points_goal |-> perf.points_goal,
                 is_burnout |-> Burnout(perf, accumulated(perf.agent_id)),
                 accumulated_hours |-> accumulated(perf.agent_id)]]

\* One GET /api/metrics: the response is kept in pres.
GetMetrics(limit, team_id, sprint_days, today) ==
    /\ pres' = [called |-> TRUE, ok |-> TRUE, today |-> today,
                sprint_days |-> sprint_days, team_id |-> team_id, limit |-> limit,
                metrics |-> get_metrics(perfs, agents, limit, team_id,
                                        sprint_days, today)]
    /\ UNCHANGED <<agents, teams, perfs, nextId, req, served, hist, ptext>>

----------------------------------------------------------------------------
(* The parser harness: one call of parse_raw_text on a block.              *)

NotCalled == [called |-> FALSE, ok |-> FALSE, metrics |-> <<>>]

ParseCall ==
    /\ ~pres.called
    /\ pres' = [called |-> TRUE] @@ parse_raw_text(Render(ptext), BaseYear)
    /\ UNCHANGED <<agents, teams, perfs, nextId, req, served, hist, ptext>>

\* One call of _extract_dates on a header line.
NoDates == [called |-> FALSE, dates |-> <<>>]

ExtractCall ==
    /\ ~pres.called
    /\ pres' = [called |-> TRUE,
                dates |-> _extract_dates(HeaderOf(ptext), BaseYear)]
    /\ UNCHANGED <<agents, teams, perfs, nextId, req, served, hist, ptext>>

\* One call of _safe_int on a token.
NoValue == [called |-> FALSE, value |-> 0]

SanitizeCall ==
    /\ ~pres.called
    /\ pres' = [called |-> TRUE, value |-> _safe_int(ptext)]
    /\ UNCHANGED <<agents, teams, perfs, nextId, req, served, hist, ptext>>

\* The text of a block whose second line is an agent row instead of the
\* labels, with a blank line after the header when the block has a gap.
RenderSecond(block) ==
    <<HeaderLine(block.dates, block.bad)>>
    \o (IF block.gap THEN <<(<<" ", " ">>)>> ELSE <<>>)
    \o <<RowLine(block.second)>>
    \o [i \in 1..Len(block.rows) |-> RowLine(block.rows[i])]

\* One call of parse_raw_text on such a text.
ParseSecondCall ==
    /\ ~pres.called
    /\ pres' = [called |-> TRUE] @@ parse_raw_text(RenderSecond(ptext), BaseYear)
    /\ UNCHANGED <<agents, teams, perfs, nextId, req, served, hist, ptext>>

----------------------------------------------------------------------------
(* The requests of the model                                               *)

Jan1 == <<BaseYear, 1, 1>>

Jan2 == <<BaseYear, 1, 2>>

UploadBody(block, team_id, date, tickets_goal, points_goal) ==
    [kind |-> "upload", raw_data |-> block, team_id |-> team_id, date |-> date,
     tickets_goal |-> tickets_goal, points_goal |-> points_goal,
     base_year |-> BaseYear]

UploadBodies ==
    {UploadBody(BlockAL, 1, None, None, None),
     UploadBody(BlockALBO, 1, None, None, None),
     UploadBody(BlockAL, 1, Some(Jan1), None, None),
     UploadBody(BlockAL, 1, None, Some(0), None),
     UploadBody(BlockAL, 1, None, None, Some(90)),
     UploadBody(BlockZZ, 1, None, None, None),
     UploadBody(BlockBOAL, 2, None, None, None),
     UploadBody(BlockNoDates, 1, None, None, None),
     UploadBody(BlockEmpty, 1, None, None, None),
     UploadBody(BlockAL, 9, None, None, None)}

Entry(agent_id, date, tickets_actual, points_actual) ==
    [agent_id |-> agent_id, date |-> date, tickets_actual |-> tickets_actual,
     tickets_goal |-> 30, points_actual |-> points_actual, points_goal |-> 80]

BulkBody(performances) == [kind |-> "bulk", performances |-> performances]

BulkBodies ==
    {BulkBody(<<Entry(1, Jan1, 25, 95)>>),
     BulkBody(<<Entry(1, Jan1, 25, 95), Entry(9, Jan1, 1, 0)>>),
     BulkBody(<<Entry(2, Jan2, 20, 85), Entry(2, Jan2, 21, 85)>>)}

----------------------------------------------------------------------------
(* Specifications                                                          *)

NoHist == [valid |-> FALSE, body |-> NoBody, after |-> NoRows, again |-> FALSE]

\* The database as seeded: two teams, AL and BO in team 1, CY in team 2, no
\* daily_performances yet.
Init ==
    /\ teams = SeedTeams
    /\ agents = (1 :> [team_id |-> 1, excel_alias |-> NameAL])
             @@ (2 :> [team_id |-> 1, excel_alias |-> NameBO])
             @@ (3 :> [team_id |-> 2, excel_alias |-> NameCY])
    /\ perfs = NoRows
    /\ nextId = 1
    /\ req = [r \in Slots |-> Idle]
    /\ served = 0
    /\ hist = NoHist
    /\ ptext = BlockAL
    /\ pres = NotCalled

\* The requests of any number of clients, interleaved at each database call.
Next ==
    \E r \in Slots :
        \/ \E body \in UploadBodies : UploadBegin(r, body)
        \/ UploadLookup(r)
        \/ UploadCommit(r)
        \/ UploadRefresh(r)
        \/ \E body \in BulkBodies : BulkBegin(r, body)
        \/ BulkStep(r)
        \/ BulkCommit(r)
        \/ BulkRefresh(r)
        \/ Finish(r)
        \/ \E id \in DOMAIN perfs : delete_performance(id)
        \/ \E a \in DOMAIN agents : delete_agent(a)

Spec == Init /\ [][Next]_vars

\* One client that sends its requests one after the other.  hist keeps the
\* last upload that committed, the table it left, and whether it repeated the
\* upload before it on the table that one left.
UploadCommitSeq(r) ==
    /\ req[r].pc = "commit"
    /\ req[r].op = "upload"
    /\ Committed(r)
    /\ hist' = IF req'[r].pc = "refresh"
               THEN [valid |-> TRUE, body |-> req[r].body, after |-> perfs',
                     again |-> hist.valid /\ hist.body = req[r].body
                               /\ hist.after = perfs]
               ELSE hist
    /\ UNCHANGED <<agents, teams, served, ptext, pres>>

SeqBodies ==
    UploadBodies
    \cup {UploadBody(block, 1, None, None, None) : block \in CompleteBlocks}
    \cup {UploadBody(block, 1, None, None, None) :
             block \in {BlockBlankRow, BlockBlankThenAL, BlockBadOnly,
                        BlockNoDatesZZ, BlockTotal, BlockSigned}}
    \cup {UploadBody(BlockAL, 2, None, None, None),
          UploadBody(BlockAL, 1, Some(Jan2), Some(0), Some(90)),
          UploadBody(BlockALBO, 1, Some(Jan2), None, None)}

\* The bulk bodies sent one after another: those above, and one whose first
\* entry names a pair of its own and whose last two name the same pair.
SeqBulkBodies ==
    BulkBodies
    \cup {BulkBody(<<Entry(1, Jan2, 22, 70), Entry(2, Jan1, 20, 85),
                     Entry(2, Jan1, 21, 85)>>)}

NextSeq ==
    \/ \E body \in SeqBodies : UploadBegin(1, body)
    \/ UploadLookup(1)
    \/ UploadCommitSeq(1)
    \/ UploadRefresh(1)
    \/ \E body \in SeqBulkBodies : BulkBegin(1, body)
    \/ BulkStep(1)
    \/ BulkCommit(1)
    \/ BulkRefresh(1)
    \/ Finish(1)
    \/ req[1].pc = "idle" /\ \E id \in DOMAIN perfs : delete_performance(id)
    \/ req[1].pc = "idle" /\ \E a \in DOMAIN agents : delete_agent(a)

SpecSeq == Init /\ [][NextSeq]_vars

\* Two uploads that race on a table which holds the row of (AL, 1 Jan), as
\* the upload of BlockAL1 leaves it.
RaceRows ==
    1 :> [agent_id |-> 1, date |-> Jan1, tickets_actual |-> 1, tickets_goal |-> 2,
          points_actual |-> PointsActualDefault, points_goal |-> PointsGoalDefault]

InitRace ==
    /\ teams = SeedTeams
    /\ agents = (1 :> [team_id |-> 1, excel_alias |-> NameAL])
             @@ (2 :> [team_id |-> 1, excel_alias |-> NameBO])
             @@ (3 :> [team_id |-> 2, excel_alias |-> NameCY])
    /\ perfs = RaceRows
    /\ nextId = 2
    /\ req = [r \in Slots |-> Idle]
    /\ served = 0
    /\ hist = NoHist
    /\ ptext = BlockAL
    /\ pres = NotCalled

RaceBodies ==
    {UploadBody(BlockAL1, 1, None, Some(0), None),
     UploadBody(BlockAL1, 1, None, None, Some(90)),
     UploadBody(BlockAL, 1, None, None, None),
     UploadBody(BlockALBO, 1, None, None, None)}

NextRace ==
    \E r \in Slots :
        \/ \E body \in RaceBodies : UploadBegin(r, body)
        \/ UploadLookup(r)
        \/ UploadCommit(r)
        \/ UploadRefresh(r)

SpecRace == InitRace /\ [][NextRace]_vars

\* The requests that create, rename and delete teams and agents, with bulk
\* requests and deletes, served by the processes and interleaved at each
\* database call.
TeamNames == {"Alpha", "Gamma"}

AdminBulkBodies == {BulkBody(<<Entry(1, Jan1, 25, 95)>>)}

NextAdmin ==
    \E r \in Slots :
        \/ \E name \in TeamNames : CreateTeamBegin(r, name)
        \/ CreateTeamCommit(r)
        \/ \E t \in {1, 2}, name \in TeamNames : UpdateTeamBegin(r, t, name)
        \/ UpdateTeamCommit(r)
        \/ TeamRefresh(r)
        \/ \E t \in {1, 2} : DeleteTeamBegin(r, t)
        \/ DeleteTeamCommit(r)
        \/ \E t \in {1, 2}, al \in {NameAL, NameZZ} : CreateAgentBegin(r, t, al)
        \/ CreateAgentCommit(r)
        \/ AgentRefresh(r)
        \/ \E body \in AdminBulkBodies : BulkBegin(r, body)
        \/ BulkStep(r)
        \/ BulkCommit(r)
        \/ BulkRefresh(r)
        \/ Finish(r)
        \/ \E id \in DOMAIN perfs : delete_performance(id)
        \/ \E a \in DOMAIN agents : delete_agent(a)

SpecAdmin == Init /\ [][NextAdmin]_vars

\* Bulk requests of one client and reads of the metrics.
Jan20 == <<BaseYear, 1, 20>>

MetricsBulkBodies ==
    {BulkBody(<<Entry(1, Jan2, 25, 95)>>),
     BulkBody(<<Entry(1, Jan1, 25, 800)>>),
     BulkBody(<<Entry(2, Jan1, 20, 900), Entry(3, Jan2, 20, 70)>>)}

NextMetrics ==
    \/ \E body \in MetricsBulkBodies : BulkBegin(1, body)
    \/ BulkStep(1)
    \/ BulkCommit(1)
    \/ BulkRefresh(1)
    \/ Finish(1)
    \/ \E limit \in {1, 1000}, team_id \in {None, Some(1)}, sprint_days \in {1, 10},
          today \in {Jan2, Jan20} :
          GetMetrics(limit, team_id, sprint_days, today)

SpecMetrics == Init /\ [][NextMetrics]_vars

\* One call of _safe_int on each token of up to MaxTokenLen characters: digits,
\* the separators, white space, the minus sign and a letter.
TokenChars == {"0", "1", "2", ".", ",", " ", "-", "a"}

MaxTokenLen == 4

SanitizeTokens == UNION {[1..n -> TokenChars] : n \in 0..MaxTokenLen}

InitSanitize ==
    /\ teams = SeedTeams
    /\ agents = (1 :> [team_id |-> 1, excel_alias |-> NameAL])
    /\ perfs = NoRows
    /\ nextId = 1
    /\ req = [r \in Slots |-> Idle]
    /\ served = 0
    /\ hist = NoHist
    /\ ptext \in SanitizeTokens
    /\ pres = NoValue

NextSanitize == SanitizeCall

SpecSanitize == InitSanitize /\ [][NextSanitize]_vars

\* One call of parse_raw_text on each text whose second line is an agent row.
SecondLineBlocks ==
    {[dates |-> d, bad |-> FALSE, gap |-> g, second |-> s, rows |-> rs] :
        d \in 1..MaxDates, g \in BOOLEAN,
        s \in Rows({NameAL, NameBO}, {1, 2}, {3, 6}),
        rs \in {<<>>} \cup {<<r>> : r \in Rows({NameAL, NameBO}, {1}, {0, 3, 6})}}

InitSecondLine ==
    /\ teams = SeedTeams
    /\ agents = (1 :> [team_id |-> 1, excel_alias |-> NameAL])
    /\ perfs = NoRows
    /\ nextId = 1
    /\ req = [r \in Slots |-> Idle]
    /\ served = 0
    /\ hist = NoHist
    /\ ptext \in SecondLineBlocks
    /\ pres = NotCalled

NextSecondLine == ParseSecondCall

SpecSecondLine == InitSecondLine /\ [][NextSecondLine]_vars

\* One call of parse_raw_text on each block of the harness.
InitParse ==
    /\ teams = SeedTeams
    /\ agents = (1 :> [team_id |-> 1, excel_alias |-> NameAL])
             @@ (2 :> [team_id |-> 1, excel_alias |-> NameBO])
             @@ (3 :> [team_id |-> 2, excel_alias |-> NameCY])
    /\ perfs = NoRows
    /\ nextId = 1
    /\ req = [r \in Slots |-> Idle]
    /\ served = 0
    /\ hist = NoHist
    /\ ptext \in ParseBlocks
    /\ pres = NotCalled

NextParse == ParseCall

SpecParse == InitParse /\ [][NextParse]_vars

\* One call of _extract_dates on each header of the harness.
InitDates ==
    /\ teams = SeedTeams
    /\ agents = (1 :> [team_id |-> 1, excel_alias |-> NameAL])
    /\ perfs = NoRows
    /\ nextId = 1
    /\ req = [r \in Slots |-> Idle]
    /\ served = 0
    /\ hist = NoHist
    /\ ptext \in HeaderKinds
    /\ pres = NoDates

NextDates == ExtractCall

SpecDates == InitDates /\ [][NextDates]_vars

----------------------------------------------------------------------------
(* Properties of the parser                                                *)

\* The records a row of a block stands for when it covers its first c dates.
RowRecords(row, c) ==
    [i \in 1..c |->
        [excel_alias |-> upper(row.name),
         date |-> <<BaseYear, 1, i>>,
         tickets_actual |-> CellValue(row.style, 3 * i - 2),
         tickets_goal |-> CellValue(row.style, 3 * i - 1),
         points_actual |-> PointsActualDefault,
         points_goal |-> PointsGoalDefault]]

RECURSIVE BlockRecords(_, _)
BlockRecords(rows, counts) ==
    IF rows = <<>> THEN <<>>
    ELSE RowRecords(rows[1], counts[1]) \o BlockRecords(Tail(rows), Tail(counts))

\* The number of date indexes k < D with 3k + 2 <= T.
GroupsWithActualAndGoal(n_dates, n_tokens) ==
    Cardinality({k \in 0..(n_dates - 1) : 3 * k + 2 <= n_tokens})

\* C9: the decoder stops only when fewer than 2 tokens remain or all D dates
\* are consumed, so a row of T numeric tokens yields the record of date index
\* k exactly when k < D and 3k + 2 <= T; a last group with actual and goal
\* but no delta still yields its record.
C9_TwoTokensSuffice ==
    pres.called =>
        pres.metrics =
            BlockRecords(ptext.rows,
                         [i \in 1..Len(ptext.rows) |->
                             GroupsWithActualAndGoal(ptext.dates, ptext.rows[i].n)])

\* C10: a row with too few numeric tokens for every header date raises no
\* error; it yields the records of a prefix of the header dates (a non-empty
\* one when it holds a whole group), its i-th record carries the i-th header
\* date, and the other rows of the block are parsed as well.
C10_ShortRowYieldsPrefix ==
    pres.called =>
        /\ pres.ok
        /\ \E counts \in [1..Len(ptext.rows) -> 0..ptext.dates] :
              /\ pres.metrics = BlockRecords(ptext.rows, counts)
              /\ \A i \in 1..Len(ptext.rows) :
                    ptext.rows[i].n >= 3 /\ ptext.dates >= 1 => counts[i] >= 1

\* A short first row gave the records of two dates out of three and the row
\* after it gave its own.
C10_Witness ==
    /\ pres.called
    /\ ptext.dates = 3
    /\ Len(ptext.rows) = 2
    /\ ptext.rows[1].n = 7
    /\ ptext.rows[2].name = NameBO
    /\ Len(SelectSeq(pres.metrics, LAMBDA m : m.excel_alias = NameAL)) = 2
    /\ \E i \in 1..Len(pres.metrics) : pres.metrics[i].excel_alias = NameBO

----------------------------------------------------------------------------
(* Properties of the requests                                              *)

Keys(table) == {KeyOf(table[i]) : i \in DOMAIN table}

RowSet(table) == {table[i] : i \in DOMAIN table}

\* C1: in every reachable state the committed daily_performances hold at
\* most one row per (agent_id, date), whatever uploads, bulk creations and
\* deletions ran and however they interleaved.
C1_AtMostOnePerPair ==
    \A i, j \in DOMAIN perfs :
        i # j => perfs[i].agent_id # perfs[j].agent_id \/ perfs[i].date # perfs[j].date

\* Two requests added the same pair: one committed it, the commit of the
\* other was refused.
C1_Witness ==
    \E r1, r2 \in Slots :
        /\ r1 # r2
        /\ req[r1].wrote
        /\ req[r2].pc = "done" /\ req[r2].status = 500 /\ ~req[r2].wrote
        /\ \E i \in 1..Len(req[r1].new), j \in 1..Len(req[r2].new) :
              /\ KeyOf(req[r1].new[i]) = KeyOf(req[r2].new[j])
              /\ KeyOf(req[r1].new[i]) \in Keys(perfs)

\* The aliases of the parsed rows of an upload that no agent of the team bears.
Unresolved(body) ==
    LET parsed == ParsedText[body.raw_data].metrics
    IN  {al \in {parsed[i].excel_alias : i \in 1..Len(parsed)} :
            \A a \in DOMAIN agents :
                agents[a].team_id = body.team_id => agents[a].excel_alias # al}

\* C2: an upload whose parsed batch holds an alias that resolves to no agent
\* fails as a whole: the error names every unresolved alias, in sorted order,
\* and the committed table after the call is the table before it.
C2_UnresolvedFailsWholeBatch ==
    [][\A r \in Slots :
          (/\ req[r].pc = "idle"
           /\ req'[r].op = "upload"
           /\ req'[r].body.team_id \in DOMAIN teams
           /\ Unresolved(req'[r].body) # {})
          => /\ req'[r].pc = "done"
             /\ req'[r].status = 400
             /\ req'[r].error = "missing_agents"
             /\ Range(req'[r].missing) = Unresolved(req'[r].body)
             /\ \A i, j \in 1..Len(req'[r].missing) :
                   i < j => StrLess(req'[r].missing[i], req'[r].missing[j])
             /\ req'[r].new = <<>> /\ req'[r].dirty = NoRows /\ ~req'[r].wrote
             /\ perfs' = perfs]_vars

\* An upload was refused with two unresolved aliases.
C2_Witness ==
    \E r \in Slots :
        /\ req[r].pc = "done"
        /\ req[r].error = "missing_agents"
        /\ Len(req[r].missing) >= 2

\* C6: a batch is persisted atomically: when an upload or a bulk creation
\* fails, the whole batch is rolled back: a request that ended in an error
\* has committed nothing.
C6_FailureCommitsNothing ==
    \A r \in Slots :
        req[r].pc = "done" /\ req[r].status \notin {200, 201} => ~req[r].wrote

----------------------------------------------------------------------------
(* Properties of one upload after the other                                *)

\* The upload of the client commits its batch in this step.
UploadCommits ==
    req[1].pc = "commit" /\ req[1].op = "upload" /\ req'[1].pc = "refresh"

\* The parsed rows of an upload in input order, each with the agent its alias
\* resolves to and with the overrides of the request applied.
EffectiveRows(body) ==
    LET parsed == ParsedText[body.raw_data].metrics
    IN  [i \in 1..Len(parsed) |->
            [agent_id |-> CHOOSE a \in DOMAIN agents :
                              /\ agents[a].team_id = body.team_id
                              /\ agents[a].excel_alias = parsed[i].excel_alias,
             date |-> IF body.date = None THEN parsed[i].date ELSE body.date[1],
             tickets_actual |-> parsed[i].tickets_actual,
             tickets_goal |-> IF body.tickets_goal = None
                              THEN parsed[i].tickets_goal ELSE body.tickets_goal[1],
             points_actual |-> parsed[i].points_actual,
             points_goal |-> IF body.points_goal = None
                             THEN parsed[i].points_goal ELSE body.points_goal[1]]]

\* C3: when a pair (agent_id, effective date) occurs more than once in one
\* batch, the row stored for the pair holds the values of its last occurrence
\* in input order.
C3_LastOccurrenceWins ==
    [][UploadCommits =>
          LET eff == EffectiveRows(req[1].body)
          IN  \A i \in 1..Len(eff) :
                  (/\ \E j \in 1..(i - 1) : KeyOf(eff[j]) = KeyOf(eff[i])
                   /\ \A j \in (i + 1)..Len(eff) : KeyOf(eff[j]) # KeyOf(eff[i]))
                  => eff[i] \in RowSet(perfs')]_vars

\* C4: an upload repeated on the table its first run left changes nothing:
\* the same keys, the same values and the same ids; every pair of the second
\* run takes the update branch and nothing is inserted.
C4_SecondRunIdempotent ==
    [][(/\ req[1].pc = "commit"
        /\ req[1].op = "upload"
        /\ hist.valid
        /\ hist.body = req[1].body
        /\ hist.after = perfs)
       => /\ req'[1].pc = "refresh"
          /\ perfs' = perfs
          /\ nextId' = nextId
          /\ req[1].new = <<>>
          /\ Len(req[1].result) = Len(req[1].batch)
          /\ \A i \in 1..Len(req[1].result) : req[1].result[i].row \in DOMAIN perfs]_vars

\* The same upload committed twice in a row on a table that holds its rows.
C4_Witness ==
    /\ hist.again
    /\ hist.after # NoRows
    /\ perfs = hist.after

\* C7: an upload onto existing rows keeps the fields the text does not
\* carry: points_actual, and points_goal when the request gives no
\* points_goal override, keep the values stored before the upload.
C7_UploadKeepsPoints ==
    [][UploadCommits =>
          \A id \in DOMAIN req[1].dirty \cap DOMAIN perfs :
              /\ perfs'[id].points_actual = perfs[id].points_actual
              /\ req[1].body.points_goal = None
                 => perfs'[id].points_goal = perfs[id].points_goal]_vars

\* Every row of the block names a different agent and carries one whole
\* group of three cells for each of the D >= 1 header dates, its first two
\* cells being counts (no minus sign).
Complete(block) ==
    /\ ~block.bad
    /\ block.dates >= 1
    /\ \A i \in 1..Len(block.rows) : block.rows[i].n = 3 * block.dates
    /\ \A i \in 1..Len(block.rows), k \in 1..block.dates :
          /\ CellValue(block.rows[i].style, 3 * k - 2) >= 0
          /\ CellValue(block.rows[i].style, 3 * k - 1) >= 0
    /\ \A i, j \in 1..Len(block.rows) :
          i # j => upper(block.rows[i].name) # upper(block.rows[j].name)

\* The (agent, date, tickets_actual, tickets_goal) a complete block stands for.
Expected(block, team_id) ==
    {[agent_id |-> CHOOSE a \in DOMAIN agents :
                       /\ agents[a].team_id = team_id
                       /\ agents[a].excel_alias = upper(block.rows[i].name),
      date |-> <<BaseYear, 1, k>>,
      tickets_actual |-> CellValue(block.rows[i].style, 3 * k - 2),
      tickets_goal |-> CellValue(block.rows[i].style, 3 * k - 1)] :
        i \in 1..Len(block.rows), k \in 1..block.dates}

Tickets(row) ==
    [agent_id |-> row.agent_id, date |-> row.date,
     tickets_actual |-> row.tickets_actual, tickets_goal |-> row.tickets_goal]

\* C8: a block of D header dates whose rows each carry D whole groups,
\* uploaded without overrides on an empty table, creates exactly one row per
\* (agent, date); its tickets_actual and tickets_goal are the first and the
\* second cell of the group of that date, whatever the delta cell holds.
C8_CompleteBlockOnEmptyStore ==
    [][(/\ req[1].pc = "commit"
        /\ req[1].op = "upload"
        /\ perfs = NoRows
        /\ Complete(req[1].body.raw_data)
        /\ req[1].body.date = None
        /\ req[1].body.tickets_goal = None)
       => /\ req'[1].pc = "refresh"
          /\ req[1].dirty = NoRows
          /\ Len(req[1].new) = Len(req[1].body.raw_data.rows) * req[1].body.raw_data.dates
          /\ Cardinality(DOMAIN perfs') = Len(req[1].new)
          /\ {Tickets(perfs'[id]) : id \in DOMAIN perfs'}
                = Expected(req[1].body.raw_data, req[1].body.team_id)]_vars

\* A block of three dates and two rows, one of them written with thousands
\* separators and dashes, was committed on the empty table.
C8_Witness ==
    /\ req[1].pc = "refresh"
    /\ req[1].op = "upload"
    /\ Complete(req[1].body.raw_data)
    /\ req[1].body.raw_data.dates = 3
    /\ Len(req[1].body.raw_data.rows) = 2
    /\ Len(req[1].new) = 6
    /\ Cardinality(DOMAIN perfs) = 6

----------------------------------------------------------------------------
(* Properties of two uploads that race                                     *)

RECURSIVE UpsertAll(_, _)
UpsertAll(q, table) ==
    IF q.pc = "lookup" THEN UpsertAll(Upsert(q, table), table) ELSE q

\* The rows of the table after the upload ran alone on it, when it commits.
AppliedAlone(table, body) ==
    LET eff == EffectiveRows(body)
        parsed == ParsedText[body.raw_data].metrics
        by_alias == [al \in {parsed[i].excel_alias : i \in 1..Len(parsed)} |->
                        eff[CHOOSE i \in 1..Len(parsed) :
                                parsed[i].excel_alias = al].agent_id]
        q == UpsertAll([Idle EXCEPT !.pc = "lookup", !.idx = 1,
                                    !.batch = GroupByKey(parsed, by_alias, body, <<>>)],
                       table)
    IN  Flush(table, agents, q.dirty, q.new,
              IF DOMAIN table = {} THEN 1
              ELSE 1 + CHOOSE n \in DOMAIN table : \A m \in DOMAIN table : m <= n).table

RECURSIVE Serially(_, _)
Serially(table, order) ==
    IF order = <<>> THEN table
    ELSE Serially(AppliedAlone(table, req[order[1]].body), Tail(order))

\* The orders in which the requests that committed can be put.
Orders(S) ==
    {order \in [1..Cardinality(S) -> S] :
        \A i, j \in 1..Cardinality(S) : order[i] = order[j] => i = j}

\* C5: two uploads that touch the same pair at the same time lose no update:
\* the committed table in the end is the table some serial order of the
\* uploads that committed leaves, and the two never both insert the pair.
C5_SerialOutcome ==
    (\A r \in Slots : req[r].pc = "done")
    => /\ \E order \in Orders({r \in Slots : req[r].wrote}) :
             RowSet(perfs) = RowSet(Serially(RaceRows, order))
       /\ \A r1, r2 \in Slots :
             r1 # r2 /\ req[r1].wrote /\ req[r2].wrote
             => \A i \in 1..Len(req[r1].new), j \in 1..Len(req[r2].new) :
                   KeyOf(req[r1].new[i]) # KeyOf(req[r2].new[j])

----------------------------------------------------------------------------
(* Properties of the rejections of an upload                               *)

\* The client's request is taken up in this step, and it is an upload for a
\* team that exists.
UploadTaken ==
    req[1].pc = "idle" /\ req'[1].op = "upload" /\ req'[1].body.team_id \in DOMAIN teams

\* How many lines of the pasted text hold something else than white space.
NonBlankCount(block) ==
    LET text == Render(block)
    IN  Cardinality({i \in 1..Len(text) :
                        \E k \in 1..Len(text[i]) : ~IsSpace(text[i][k])})

\* The request ended here without a row looked up, added or written.
EndedUntouched ==
    /\ req'[1].pc = "done"
    /\ req'[1].new = <<>> /\ req'[1].dirty = NoRows /\ ~req'[1].wrote
    /\ perfs' = perfs

C12_TooFewLines ==
    [][(UploadTaken /\ NonBlankCount(req'[1].body.raw_data) < 3)
       => /\ ~ParsedText[req'[1].body.raw_data].ok
          /\ EndedUntouched
          /\ req'[1].status = 400
          /\ req'[1].error = "parse_error"
          /\ req'[1].missing = <<>>]_vars

\* A text of three lines, the third of white space only, was refused as an
\* invalid format.
C12_Witness ==
    /\ req[1].pc = "done"
    /\ req[1].error = "parse_error"
    /\ Len(Render(req[1].body.raw_data)) = 3
    /\ NonBlankCount(req[1].body.raw_data) = 2

----------------------------------------------------------------------------
(* Properties of the rows an upload stores                                 *)

\* The parsed records of the upload that bear the alias of the agent.
ParsedOf(body, agent_id) ==
    LET parsed == ParsedText[body.raw_data].metrics
    IN  {parsed[k] : k \in {n \in 1..Len(parsed) :
                               parsed[n].excel_alias = agents[agent_id].excel_alias}}

\* C13: the overrides of the request apply to every row of the batch: each
\* row stored carries the explicit date when one is given and its parsed
\* date otherwise, the explicit tickets_goal (0 included) when one is given
\* and the parsed goal otherwise, the explicit points_goal when one is given
\* and the default 8.0 otherwise; a row created has points_actual 0.0.
C13_OverridesApply ==
    [][UploadCommits =>
          LET body == req[1].body
          IN  \A i \in 1..Len(req'[1].result) :
                  LET row == perfs'[req'[1].result[i]]
                      from == {m \in ParsedOf(body, row.agent_id) :
                                  body.date = None => m.date = row.date}
                  IN  /\ from # {}
                      /\ body.date # None => row.date = body.date[1]
                      /\ IF body.tickets_goal # None
                         THEN row.tickets_goal = body.tickets_goal[1]
                         ELSE \E m \in from : m.tickets_goal = row.tickets_goal
                      /\ row.points_goal = IF body.points_goal # None
                                           THEN body.points_goal[1]
                                           ELSE PointsGoalDefault
                      /\ req[1].result[i].row = 0
                         => row.points_actual = PointsActualDefault]_vars

\* An upload with the three overrides (the tickets_goal being 0) was committed.
C13_Witness ==
    /\ req[1].pc = "refresh"
    /\ req[1].op = "upload"
    /\ req[1].body.date = Some(Jan2)
    /\ req[1].body.tickets_goal = Some(0)
    /\ req[1].body.points_goal = Some(90)
    /\ \E id \in DOMAIN perfs :
          /\ perfs[id].date = Jan2
          /\ perfs[id].tickets_goal = 0
          /\ perfs[id].points_goal = 90

\* The distinct (agent_id, effective date) pairs of an upload.
PairsOf(body) ==
    LET eff == EffectiveRows(body) IN {KeyOf(eff[i]) : i \in 1..Len(eff)}

\* C14: for each distinct (agent_id, effective date) pair of a successful
\* upload the row that existed before the call is updated in place (same id,
\* the table no larger for it) and exactly one row is inserted otherwise; the
\* call returns exactly one record per distinct pair, each with its id.
C14_OneRowPerPair ==
    [][/\ UploadCommits =>
             LET pairs == PairsOf(req[1].body)
                 ids == req'[1].result
             IN  /\ Len(ids) = Cardinality(pairs)
                 /\ {KeyOf(perfs'[ids[i]]) : i \in 1..Len(ids)} = pairs
                 /\ \A pair \in pairs \cap Keys(perfs) :
                       \A id \in DOMAIN perfs :
                           KeyOf(perfs[id]) = pair
                           => id \in Range(ids) /\ KeyOf(perfs'[id]) = pair
                 /\ \A pair \in pairs \ Keys(perfs) :
                       Cardinality({id \in DOMAIN perfs' \ DOMAIN perfs :
                                       KeyOf(perfs'[id]) = pair}) = 1
                 /\ Cardinality(DOMAIN perfs')
                       = Cardinality(DOMAIN perfs) + Cardinality(pairs \ Keys(perfs))
       /\ (req[1].pc = "refresh" /\ req[1].op = "upload" /\ req'[1].status = 200)
          => /\ Len(req'[1].result) = Cardinality(PairsOf(req[1].body))
             /\ \A i \in 1..Len(req'[1].result) :
                   LET rec == req'[1].result[i]
                   IN  /\ rec.id \in DOMAIN perfs
                       /\ rec = [id |-> rec.id] @@ perfs[rec.id]
             /\ \A i, j \in 1..Len(req'[1].result) :
                   req'[1].result[i].id = req'[1].result[j].id => i = j]_vars

\* An upload answered 200 after it updated one row and inserted another.
C14_Witness ==
    /\ req[1].pc = "done"
    /\ req[1].op = "upload"
    /\ req[1].status = 200
    /\ req[1].dirty # NoRows
    /\ req[1].new # <<>>

----------------------------------------------------------------------------
(* Frame of the upserts                                                    *)

BatchKeys(q) == {KeyOf(q.batch[i]) : i \in 1..Len(q.batch)}

\* C15: an upload or a bulk creation never deletes a row: every step of
\* either handler leaves every stored row in place under its id and pair, so
\* the stored pairs after it include those before it, and the rows whose
\* pair is not in the batch are unchanged.
C15_UpsertsNeverDelete ==
    [][\A r \in Slots :
          req'[r] # req[r]
          => /\ Keys(perfs) \subseteq Keys(perfs')
             /\ \A id \in DOMAIN perfs :
                   /\ id \in DOMAIN perfs'
                   /\ KeyOf(perfs'[id]) = KeyOf(perfs[id])
                   /\ KeyOf(perfs[id]) \notin BatchKeys(req[r])
                      => perfs'[id] = perfs[id]]_vars

\* A batch was committed next to an older row of a pair it does not hold.
C15_Witness ==
    \E r \in Slots :
        /\ req[r].pc = "refresh"
        /\ \E id \in DOMAIN perfs :
              /\ KeyOf(perfs[id]) \notin BatchKeys(req[r])
              /\ \A i \in 1..Len(req[r].result) : id < req[r].result[i]

----------------------------------------------------------------------------
(* Scope of the resolution                                                 *)

\* The parsed aliases of the upload that an agent of another team bears and
\* no agent of the team of the request.
ForeignAliases(body) ==
    LET parsed == ParsedText[body.raw_data].metrics
    IN  {al \in {parsed[i].excel_alias : i \in 1..Len(parsed)} :
            /\ \E a \in DOMAIN agents :
                  agents[a].excel_alias = al /\ agents[a].team_id # body.team_id
            /\ \A a \in DOMAIN agents :
                  agents[a].excel_alias = al => agents[a].team_id # body.team_id}

\* C16: an alias is resolved only within the team of the request: an alias
\* that an agent of another team bears, and no agent of the requested team,
\* counts as unresolved and fails the whole batch.
C16_ResolvedWithinTeam ==
    [][(UploadTaken /\ ForeignAliases(req'[1].body) # {})
       => /\ EndedUntouched
          /\ req'[1].status = 400
          /\ req'[1].error = "missing_agents"
          /\ ForeignAliases(req'[1].body) \subseteq Range(req'[1].missing)]_vars

\* The rows of AL were refused for team 2 while AL is an agent of team 1.
C16_Witness ==
    /\ req[1].pc = "done"
    /\ req[1].error = "missing_agents"
    /\ req[1].body.team_id = 2
    /\ NameAL \in Range(req[1].missing)
    /\ \E a \in DOMAIN agents :
          agents[a].excel_alias = NameAL /\ agents[a].team_id = 1

----------------------------------------------------------------------------
(* The order of the extracted dates                                        *)

\* The date a token of the harness stands for, None for a token that is
\* not well formed.
TokenDate(kind) ==
    CASE kind = 1 -> Some(<<BaseYear, 1, 2>>)
      [] kind = 2 -> Some(<<BaseYear, 1, 1>>)
      [] kind = 5 -> Some(<<BaseYear, 12, 15>>)
      [] kind = 6 -> Some(<<BaseYear, 3, 3>>)
      [] OTHER -> None

\* The dates of the well-formed tokens, in the order of the tokens.
RECURSIVE WellFormedDates(_)
WellFormedDates(kinds) ==
    IF kinds = <<>> THEN <<>>
    ELSE LET d == TokenDate(kinds[1])
         IN  (IF d = None THEN <<>> ELSE <<d[1]>>)
             \o WellFormedDates(Tail(kinds))

----------------------------------------------------------------------------
(* The sign of the ticket counts                                           *)

\* Whether a record has neither a negative count nor a negative goal.
NonNegative(rec) == rec.tickets_actual >= 0 /\ rec.tickets_goal >= 0

----------------------------------------------------------------------------
(* Rows of totals                                                          *)

\* The markers of the rows that are no agent's: "TOTAL" and "CONTINGENCIA".
Markers == {<<"T", "O", "T", "A", "L">>,
            <<"C", "O", "N", "T", "I", "N", "G", "E", "N", "C", "I", "A">>}

\* Whether the text contains the marker.
Contains(s, sub) ==
    \E i \in 1..Len(s) :
        i + Len(sub) - 1 <= Len(s) /\ SubSeq(s, i, i + Len(sub) - 1) = sub

HasMarker(s) == \E sub \in Markers : Contains(s, sub)

\* C19: a data line that contains a marker such as TOTAL is skipped: it
\* yields no parsed record and its leading text is never looked up as an
\* agent, so it is never reported as an unresolved alias.
C19_MarkerLinesSkipped ==
    \A r \in Slots :
        req[r].op = "upload" =>
            LET parsed == ParsedText[req[r].body.raw_data].metrics
            IN  /\ \A k \in 1..Len(parsed) : ~HasMarker(parsed[k].excel_alias)
                /\ \A al \in Range(req[r].missing) : ~HasMarker(al)

----------------------------------------------------------------------------
(* A bulk request that names an unknown agent                              *)

\* Whether an entry of the bulk body names an agent that does not exist.
NamesUnknownAgent(body) ==
    \E k \in 1..Len(body.performances) :
        body.performances[k].agent_id \notin DOMAIN agents

\* C20: a bulk request with an entry whose agent does not exist ends with 404
\* and persists none of its entries: neither the entries before the unknown
\* one nor the updates they applied to rows already stored.
C20_UnknownAgentPersistsNothing ==
    [][(req'[1].op = "bulk" /\ NamesUnknownAgent(req'[1].body))
       => /\ perfs' = perfs
          /\ req'[1].pc \in {"lookup", "done"}
          /\ req'[1].pc = "done"
                => /\ req'[1].status = 404
                   /\ req'[1].error = "agent_not_found"
                   /\ ~req'[1].wrote]_vars

\* The request that updates the row of (1, 1 Jan) and then names agent 9
\* ended with 404 while the stored row keeps its other count.
C20_Witness ==
    /\ req[1].pc = "done"
    /\ req[1].op = "bulk"
    /\ req[1].status = 404
    /\ Len(req[1].body.performances) = 2
    /\ \E i \in DOMAIN perfs :
          /\ perfs[i].agent_id = 1 /\ perfs[i].date = Jan1
          /\ perfs[i].tickets_actual # req[1].body.performances[1].tickets_actual

----------------------------------------------------------------------------
(* The bulk request on rows that exist                                     *)

\* The last entry of the bulk body for the pair.
LastEntry(body, key) ==
    LET ks == {k \in 1..Len(body.performances) :
                  KeyOf(body.performances[k]) = key}
    IN  body.performances[CHOOSE k \in ks : \A j \in ks : j <= k]

\* The pairs of the bulk body.
BulkKeys(body) ==
    {KeyOf(body.performances[k]) : k \in 1..Len(body.performances)}

\* C21: a bulk request whose entry names a pair that is stored updates that
\* row in place: the row keeps its id, no row is added for the pair, and its
\* tickets_actual, tickets_goal, points_actual and points_goal are those of
\* the request.
C21_BulkUpdatesInPlace ==
    [][(req[1].op = "bulk" /\ req[1].pc = "commit" /\ req'[1].pc = "refresh")
       => /\ \A id \in DOMAIN perfs :
                KeyOf(perfs[id]) \in BulkKeys(req[1].body)
                   => /\ id \in DOMAIN perfs'
                      /\ KeyOf(perfs'[id]) = KeyOf(perfs[id])
                      /\ ValueOf(perfs'[id])
                            = ValueOf(LastEntry(req[1].body, KeyOf(perfs[id])))
          /\ Cardinality(DOMAIN perfs')
                = Cardinality(DOMAIN perfs)
                  + Cardinality(BulkKeys(req[1].body) \ Keys(perfs))]_vars

\* A bulk request was committed that changed the row it found for its pair
\* and added none.
C21_Witness ==
    /\ req[1].op = "bulk"
    /\ req[1].pc = "refresh"
    /\ req[1].new = <<>>
    /\ \E id \in DOMAIN req[1].dirty :
          /\ Changed(req[1].dirty[id])
          /\ id \in DOMAIN perfs
          /\ ValueOf(perfs[id]) = req[1].dirty[id].cur
          /\ req[1].dirty[id].loaded.points_actual # perfs[id].points_actual

----------------------------------------------------------------------------
(* Aliases of agents                                                       *)

\* Slot r takes a create_agent request for a team that exists.
CreateAgentTaken(r) ==
    /\ req[r].pc = "idle"
    /\ req'[r].op = "create_agent"
    /\ req'[r].body.team_id \in DOMAIN teams

\* C22: create_agent with an excel_alias that an agent already has is
\* answered 400 'already exists' and creates no second agent, so that no two
\* agents ever share an alias.
C22_DuplicateAliasRejected ==
    [][/\ \A r \in Slots :
             (/\ CreateAgentTaken(r)
              /\ \E a \in DOMAIN agents :
                    agents[a].excel_alias = req'[r].body.excel_alias)
                => /\ req'[r].pc = "done"
                   /\ req'[r].status = 400
                   /\ req'[r].error = "already_exists"
       /\ \A a, b \in DOMAIN agents' :
             agents'[a].excel_alias = agents'[b].excel_alias => a = b]_vars

----------------------------------------------------------------------------
(* Names of teams                                                          *)

\* Slot r ends, without having written, a create_team or update_team request
\* whose name another team holds.
NameTakenEnds(r) ==
    /\ req[r].pc \in {"idle", "commit"}
    /\ req'[r].pc = "done"
    /\ req'[r].op \in {"create_team", "update_team"}
    /\ ~req'[r].wrote
    /\ \E t \in DOMAIN teams :
          /\ teams[t] = req'[r].body.name
          /\ req'[r].op = "update_team" => t # req'[r].body.team_id

\* C23: team names are unique in every state, and a create_team or
\* update_team request whose name another team holds is answered 400 and
\* leaves the teams as they were, also when such requests run at once.
C23_TeamNamesUnique ==
    [][/\ UniqueTeamName(teams')
       /\ \A r \in Slots :
             NameTakenEnds(r)
                => /\ req'[r].status \in {400, 404}
                   /\ req'[r].status = 400 => req'[r].error = "already_exists"
                   /\ teams' = teams]_vars

----------------------------------------------------------------------------
(* Deletes cascade                                                         *)

\* Slot r deletes its team in this step.
TeamDeleted(r) ==
    /\ req[r].op = "delete_team"
    /\ req[r].pc = "commit"
    /\ req'[r].status = 204

\* C24: after delete_team(t) no agent of t and no performance of such an
\* agent remains; after delete_agent(a) no performance of a remains; so every
\* performance references an agent that exists and every agent a team that
\* exists.
C24_DeletesCascade ==
    [][/\ \A r \in Slots :
             TeamDeleted(r)
                => /\ req[r].body.team_id \notin DOMAIN teams'
                   /\ \A a \in DOMAIN agents' :
                         agents'[a].team_id # req[r].body.team_id
                   /\ \A i \in DOMAIN perfs' :
                         /\ perfs'[i].agent_id \in DOMAIN agents
                         /\ agents[perfs'[i].agent_id].team_id # req[r].body.team_id
       /\ \A a \in DOMAIN agents \ DOMAIN agents' :
             \A i \in DOMAIN perfs' : perfs'[i].agent_id # a
       /\ AgentFkOk(perfs', agents')
       /\ TeamFkOk(agents', teams')]_vars

\* Team 1 was deleted with its agents right after the bulk request that
\* stored a row for agent 1, and the row is gone.
C24_Witness ==
    /\ \E r \in Slots :
          /\ req[r].op = "delete_team"
          /\ req[r].status = 204
          /\ req[r].body.team_id = 1
          /\ 1 \in req[r].body.agents
    /\ served = 2
    /\ nextId = 2
    /\ perfs = NoRows
    /\ 1 \notin DOMAIN agents

----------------------------------------------------------------------------
(* The burnout flag                                                        *)

\* C25: get_metrics reports is_burnout = TRUE for a row whose points_actual
\* exceeds the daily goal of 8.0 points.
C25_BurnoutOverDailyGoal ==
    pres.called =>
        \A k \in 1..Len(pres.metrics) :
            pres.metrics[k].points_actual > PointsGoalDefault
               => pres.metrics[k].is_burnout

----------------------------------------------------------------------------
(* The values of the sanitizer                                             *)

\* The token without its thousands separators.
WithoutSeparators(s) == SelectSeq(s, LAMBDA c : c \notin {".", ","})

\* The number a sequence of digits writes, read from the left.
RECURSIVE Decimal(_, _)
Decimal(s, acc) ==
    IF s = <<>> THEN acc ELSE Decimal(Tail(s), 10 * acc + DigitVal(s[1]))

AllDigits(s) == s # <<>> /\ \A i \in 1..Len(s) : IsDigit(s[i])

\* C26: _safe_int always returns an integer: the value of a token made of
\* digits only, 0 for an empty or blank token, 1234 for '1.234' and '1,234'
\* (the digits without the thousands separators), and 0 for a token from
\* which no integer can be parsed, such as '-' or 'abc'.
C26_SanitizeValues ==
    pres.called
       => /\ pres.value \in Int
          /\ AllDigits(ptext) => pres.value = Decimal(ptext, 0)
          /\ (\A i \in 1..Len(ptext) : IsSpace(ptext[i])) => pres.value = 0
          /\ AllDigits(WithoutSeparators(ptext))
                => pres.value = Decimal(WithoutSeparators(ptext), 0)
          /\ (\A i \in 1..Len(ptext) : ~IsDigit(ptext[i])) => pres.value = 0

\* '1.20' was read as 120.
C26_Witness ==
    /\ pres.called
    /\ ptext = <<"1", ".", "2", "0">>
    /\ pres.value = 120

----------------------------------------------------------------------------
(* Day-blocks under a header with a skipped token                          *)

\* The date the j-th date token of the header of the block writes, None for
\* the token with a day no month has.
HeaderTokenDate(block, j) ==
    IF block.bad
    THEN (IF j = 1 THEN None ELSE Some(<<BaseYear, 1, j - 1>>))
    ELSE Some(<<BaseYear, 1, j>>)

\* The records of a row whose k-th day-block is given the date of header
\* token k + 1, for its first c day-blocks.
ShiftedRecords(block, row, c) ==
    [k \in 1..c |->
        [excel_alias |-> upper(row.name),
         date |-> HeaderTokenDate(block, k + 1)[1],
         tickets_actual |-> CellValue(row.style, 3 * k - 2),
         tickets_goal |-> CellValue(row.style, 3 * k - 1),
         points_actual |-> PointsActualDefault,
         points_goal |-> PointsGoalDefault]]

RECURSIVE ShiftedBlockRecords(_, _)
ShiftedBlockRecords(block, rows) ==
    IF rows = <<>> THEN <<>>
    ELSE LET whole == rows[1].n \div 3
             c == IF whole < block.dates THEN whole ELSE block.dates
         IN  ShiftedRecords(block, rows[1], c)
             \o ShiftedBlockRecords(block, Tail(rows))

\* C27: the k-th day-block of a row is paired with the k-th date extracted
\* from the header, not with the k-th date token: under a header whose first
\* token is skipped, the k-th block of every row gets the date of token k + 1
\* and the blocks beyond the extracted dates yield no record.
C27_BlocksFollowExtractedDates ==
    (pres.called /\ ptext.bad)
       => pres.metrics = ShiftedBlockRecords(ptext, ptext.rows)

\* Under '31 feb. 1 ene.' a row of two whole day-blocks gave one record: its
\* first block, dated 1 January.
C27_Witness ==
    /\ pres.called
    /\ ptext.bad
    /\ ptext.dates = 1
    /\ Len(ptext.rows) = 1
    /\ ptext.rows[1].n = 6
    /\ Len(pres.metrics) = 1
    /\ pres.metrics[1].date = <<BaseYear, 1, 1>>
    /\ pres.metrics[1].tickets_actual = CellValue(ptext.rows[1].style, 1)

----------------------------------------------------------------------------
(* The second line                                                         *)

\* The number of records of a row: its whole day-blocks, up to the dates.
WholeBlocks(block, row) ==
    IF row.n \div 3 < block.dates THEN row.n \div 3 ELSE block.dates

\* C28: the second non-blank line never yields a record, even when it is a
\* well-formed agent row: the records are those of the third and later
\* non-blank lines, and a text of two non-blank lines is refused.
C28_SecondLineDiscarded ==
    pres.called =>
        IF ptext.rows = <<>>
        THEN ~pres.ok /\ pres.metrics = <<>>
        ELSE /\ pres.ok
             /\ pres.metrics =
                   BlockRecords(ptext.rows,
                                [i \in 1..Len(ptext.rows) |->
                                    WholeBlocks(ptext, ptext.rows[i])])

\* The row of AL on the second line, after a blank line, gave nothing; the
\* row of BO on the third gave its record.
C28_Witness ==
    /\ pres.called
    /\ ptext.gap
    /\ ptext.second = Row(NameAL, 1, 3)
    /\ ptext.rows = <<Row(NameBO, 1, 3)>>
    /\ Len(pres.metrics) = 1
    /\ pres.metrics[1].excel_alias = NameBO

----------------------------------------------------------------------------
(* An explicit date over several header dates                              *)

\* The aliases of the parsed records of the upload.
ParsedAliases(body) ==
    LET parsed == ParsedText[body.raw_data].metrics
    IN  {parsed[k].excel_alias : k \in 1..Len(parsed)}

\* C29: with an explicit date all day-blocks of an agent collapse onto the
\* pair (agent, explicit date): the upload stores and returns exactly one
\* record per agent of the text, however many dates the header has.
C29_OneRecordPerAgent ==
    [][/\ (UploadCommits /\ req[1].body.date # None)
          => LET ids == {req'[1].result[i] : i \in 1..Len(req'[1].result)}
             IN  /\ Len(req'[1].result) = Cardinality(ParsedAliases(req[1].body))
                 /\ Cardinality(ids) = Len(req'[1].result)
                 /\ Cardinality({perfs'[id].agent_id : id \in ids}) = Cardinality(ids)
                 /\ \A id \in ids : perfs'[id].date = req[1].body.date[1]
                 /\ DOMAIN perfs' \ DOMAIN perfs \subseteq ids
                 /\ \A id \in DOMAIN perfs \ ids :
                       id \in DOMAIN perfs' /\ perfs'[id] = perfs[id]
       /\ (/\ req[1].op = "upload" /\ req[1].pc = "refresh"
           /\ req[1].body.date # None
           /\ req'[1].pc = "done" /\ req'[1].status = 200)
          => /\ Len(req'[1].result) = Cardinality(ParsedAliases(req[1].body))
             /\ Cardinality({req'[1].result[i].agent_id :
                                i \in 1..Len(req'[1].result)})
                   = Len(req'[1].result)
             /\ \A i \in 1..Len(req'[1].result) :
                   req'[1].result[i].date = req[1].body.date[1]]_vars

\* The text of two header dates with the rows of AL (two day-blocks) and BO,
\* uploaded for 2 January, returned two records.
C29_Witness ==
    /\ req[1].pc = "done"
    /\ req[1].op = "upload"
    /\ req[1].status = 200
    /\ req[1].body.date = Some(Jan2)
    /\ req[1].body.raw_data = BlockALBO
    /\ Len(ParsedText[BlockALBO].metrics) = 3
    /\ Len(req[1].result) = 2


\* ---------------------------------------------------------------------------
\* C30
\* ---------------------------------------------------------------------------

\* The pairs that more than one entry of the bulk body names.
DuplicatePairs(body) ==
    {key \in BulkKeys(body) :
        Cardinality({k \in 1..Len(body.performances) :
                        KeyOf(body.performances[k]) = key}) > 1}

\* The rows of the table stored for the pair.
RowsOf(table, key) == {i \in DOMAIN table : KeyOf(table[i]) = key}

\* C30: while a bulk request is served whose body names a pair twice that is
\* not stored, every step either leaves the performances as they are and
\* does not report success, or stores the whole batch with exactly one row
\* for each of its pairs, carrying the values of the last entry for the
\* pair: never two rows for the pair, never a part of the batch.
C30_DuplicateInBatchAllOrNothing ==
    [][(/\ req[1].op = "bulk"
        /\ \E key \in DuplicatePairs(req[1].body) : key \notin Keys(perfs))
       => \/ perfs' = perfs /\ req'[1].pc # "refresh"
          \/ /\ req'[1].pc = "refresh"
             /\ \A key \in BulkKeys(req[1].body) :
                   /\ Cardinality(RowsOf(perfs', key)) = 1
                   /\ \A i \in RowsOf(perfs', key) :
                         ValueOf(perfs'[i]) = ValueOf(LastEntry(req[1].body, key))]_vars

\* A bulk request of three entries, the last two for one pair that was not
\* stored, has failed at its commit, and no pair of the batch is stored.
C30_Witness ==
    /\ req[1].op = "bulk"
    /\ req[1].pc = "done"
    /\ req[1].status = 500
    /\ Len(req[1].body.performances) = 3
    /\ DuplicatePairs(req[1].body) # {}
    /\ BulkKeys(req[1].body) \cap Keys(perfs) = {}
=============================================================================
